---- MODULE Spec2Model ----
(***************************************************************************)
(* Forecast accuracy metrics engine: the point metrics of                  *)
(* metrics_calculator.calculate_metrics and                                *)
(* BenchmarkEngine.calculate_metrics, and the benchmark run that           *)
(* aggregates and ranks them.                                              *)
(*                                                                         *)
(* Numbers.  A series value is a decimal with two fractional digits (the   *)
(* generators write .round(2)); the model holds it as an integer count of  *)
(* hundredths.  A computed value is an extended rational                   *)
(*     [k |-> "fin", n |-> numerator, d |-> denominator > 0]  (reduced)    *)
(*     [k |-> "nan"], [k |-> "inf", n |-> 1 or -1]                         *)
(* with the IEEE-754 rules for x/0, 0/0 and NaN that numpy and pandas      *)
(* apply.  Arithmetic on finite values is exact; binary rounding error of  *)
(* float64 is not modelled.                                                *)
(***************************************************************************)
EXTENDS Integers, Sequences, FiniteSets, TLC

VARIABLES
    \* one call of calculate_metrics
    actual, forecast, called, mc_metrics, be_metrics,
    \* one evaluation of a probabilistic, drift or turning-point score
    ev_terms, scores,
    \* a run of a program over a configuration, and what it has printed
    pc, vi, vendor_names, log,
    \* benchmark_engine.py, create_visualizations.py, create_dashboard.py
    files, results, vendor_avg_mape, results_file, vendor_summary, vendor_cards,
    \* metrics_calculator.py
    mc_files, vendor_metrics, metrics_file, best_performers,
    \* run_all.py, run_benchmarking.py, data_generator.py: the configuration
    \* file, the scripts started and their return codes, the paths that
    \* exist, the vendor entries a script accepted, the scripts in which a
    \* file or network operation failed
    config_file, started, returncodes, fs, accepted, faults,
    \* forecast_generator.py: the forecasts of separate program runs
    forecast_runs,
    \* the run_benchmark calls completed on one BenchmarkEngine
    calls

metric_vars == <<actual, forecast, called, mc_metrics, be_metrics,
                 ev_terms, scores>>

run_vars == <<pc, vi, vendor_names, log>>

engine_vars == <<files, results, vendor_avg_mape, results_file,
                 vendor_summary, vendor_cards>>

calculator_vars == <<mc_files, vendor_metrics, metrics_file, best_performers>>

script_vars == <<config_file, started, returncodes, fs, accepted, faults,
                 forecast_runs, calls>>

vars == <<metric_vars, run_vars, engine_vars, calculator_vars, script_vars>>

(***************************************************************************)
(* Bounds of the model.                                                    *)
(***************************************************************************)
MaxLen == 3
MaxVal == 1
MaxVendors == 2
MaxCalculatorVendors == 3
MaxSamples == 3
MaxCrpsLen == 2
MaxEvalLen == 4
MaxRuns == 2
MaxHashSeed == 1

(***************************************************************************)
(* Extended rationals (float64 with NaN and +/-Inf).                       *)
(***************************************************************************)
Abs(i) == IF i < 0 THEN -i ELSE i

RECURSIVE GCD(_, _)
GCD(a, b) == IF b = 0 THEN a ELSE GCD(b, a % b)

NaN == [k |-> "nan", n |-> 0, d |-> 1]

PInf == [k |-> "inf", n |-> 1, d |-> 1]

NInf == [k |-> "inf", n |-> -1, d |-> 1]

Fin(n, d) ==
    LET g == GCD(Abs(n), Abs(d))
        s == IF d < 0 THEN -1 ELSE 1
    IN  [k |-> "fin", n |-> (s * n) \div g, d |-> (s * d) \div g]

Zero == Fin(0, 1)

IsFin(x) == x.k = "fin"

IsNaN(x) == x.k = "nan"

Sign(i) == IF i < 0 THEN -1 ELSE IF i > 0 THEN 1 ELSE 0

\* float negation
FNeg(x) == IF IsNaN(x) THEN NaN ELSE [x EXCEPT !.n = -x.n]

\* np.abs on a float
FAbs(x) == IF IsNaN(x) THEN NaN ELSE [x EXCEPT !.n = Abs(x.n)]

\* float addition
FAdd(x, y) ==
    IF IsNaN(x) \/ IsNaN(y) THEN NaN
    ELSE IF IsFin(x) /\ IsFin(y) THEN Fin(x.n * y.d + y.n * x.d, x.d * y.d)
    ELSE IF IsFin(x) THEN y
    ELSE IF IsFin(y) THEN x
    ELSE IF x.n = y.n THEN x ELSE NaN

\* float multiplication
FMul(x, y) ==
    IF IsNaN(x) \/ IsNaN(y) THEN NaN
    ELSE IF IsFin(x) /\ IsFin(y) THEN Fin(x.n * y.n, x.d * y.d)
    ELSE IF Sign(x.n) * Sign(y.n) = 0 THEN NaN
    ELSE IF Sign(x.n) * Sign(y.n) > 0 THEN PInf ELSE NInf

\* float true division with numpy's error state (warn, never raise):
\* x/0 is +/-Inf for x # 0 and NaN for x = 0
FDiv(x, y) ==
    IF IsNaN(x) \/ IsNaN(y) THEN NaN
    ELSE IF IsFin(x) /\ IsFin(y) THEN
        IF y.n = 0
        THEN IF x.n = 0 THEN NaN ELSE IF x.n > 0 THEN PInf ELSE NInf
        ELSE Fin(x.n * y.d, x.d * y.n)
    ELSE IF IsFin(y) THEN (IF Sign(x.n) * Sign(y.n) >= 0 THEN x ELSE FNeg(x))
    ELSE IF IsFin(x) THEN Zero
    ELSE NaN

\* x < y on floats: every comparison with NaN is False
FLt(x, y) ==
    IF IsNaN(x) \/ IsNaN(y) THEN FALSE
    ELSE IF IsFin(x) /\ IsFin(y) THEN x.n * y.d < y.n * x.d
    ELSE IF IsFin(x) THEN y.n > 0
    ELSE IF IsFin(y) THEN x.n < 0
    ELSE x.n < y.n

\* x != y on floats: NaN differs from everything
FNe(x, y) == IsNaN(x) \/ IsNaN(y) \/ x # y

\* the integer nearest to n/d (d > 0), ties to the even integer (np.rint)
RoundHalfEven(n, d) ==
    LET q == n \div d
        r == n % d
    IN  IF 2 * r < d THEN q
        ELSE IF 2 * r > d THEN q + 1
        ELSE IF q % 2 = 0 THEN q ELSE q + 1

\* round(x, 2) on a float: non-finite values pass through unchanged
Round2(x) == IF IsFin(x) THEN Fin(RoundHalfEven(x.n * 100, x.d), 100) ELSE x

\* largest k in lo..hi with k*k*d <= n   (lo satisfies it)
RECURSIVE ISqrtBetween(_, _, _, _)
ISqrtBetween(n, d, lo, hi) ==
    IF lo = hi THEN lo
    ELSE LET mid == (lo + hi + 1) \div 2
         IN  IF mid * mid * d <= n
             THEN ISqrtBetween(n, d, mid, hi)
             ELSE ISqrtBetween(n, d, lo, mid - 1)

\* round(np.sqrt(x), 2): the square root is irrational in general, so the
\* model computes the rounded root directly: h/100 with h the integer
\* nearest to sqrt(10000 * x)
RoundSqrt2(x) ==
    IF IsNaN(x) THEN NaN
    ELSE IF ~IsFin(x) THEN (IF x.n > 0 THEN PInf ELSE NaN)
    ELSE IF x.n < 0 THEN NaN
    ELSE LET n == 10000 * x.n
             k == ISqrtBetween(n, x.d, 0, 100 * (x.n \div x.d + 1))
             \* sqrt(n/d) - k compared with 1/2
             c == 4 * n - (4 * k * k + 4 * k + 1) * x.d
         IN  IF c < 0 THEN Fin(k, 100)
             ELSE IF c > 0 THEN Fin(k + 1, 100)
             ELSE IF k % 2 = 0 THEN Fin(k, 100) ELSE Fin(k + 1, 100)

(***************************************************************************)
(* pandas Series reductions (skipna=True): np.mean(series) and             *)
(* np.sum(series) dispatch to Series.mean and Series.sum.                  *)
(***************************************************************************)
RECURSIVE NanSum(_)
NanSum(s) ==
    IF Len(s) = 0 THEN Zero
    ELSE IF IsNaN(Head(s)) THEN NanSum(Tail(s))
    ELSE FAdd(Head(s), NanSum(Tail(s)))

RECURSIVE NotNaCount(_)
NotNaCount(s) ==
    IF Len(s) = 0 THEN 0
    ELSE (IF IsNaN(Head(s)) THEN 0 ELSE 1) + NotNaCount(Tail(s))

\* Series.sum(): NaN entries count as 0
SeriesSum(s) == NanSum(s)

\* Series.mean(): NaN entries are skipped; NaN when nothing is left
SeriesMean(s) ==
    IF NotNaCount(s) = 0 THEN NaN
    ELSE FDiv(NanSum(s), Fin(NotNaCount(s), 1))

\* a series value (hundredths) as a float
Val(v) == Fin(v, 100)

\* a - b on floats
FSub(x, y) == FAdd(x, FNeg(y))

Hundred == Fin(100, 1)

Two == Fin(2, 1)

\* df['Actual'] / df['Forecast'] as a float Series
Column(s) == [i \in 1..Len(s) |-> Val(s[i])]

(***************************************************************************)
(* metrics_calculator.calculate_metrics(df); a is df['Actual'] and f is    *)
(* df['Forecast'], two columns of one table (equal length).                *)
(***************************************************************************)
\* mutant of mae: the errors are averaged with their signs
mae_signed(a, f) ==
    SeriesMean([i \in 1..Len(a) |-> FSub(Val(a[i]), Val(f[i]))])

\* mae = np.mean(np.abs(actual - forecast))
mae(a, f) ==
    SeriesMean([i \in 1..Len(a) |-> FAbs(FSub(Val(a[i]), Val(f[i])))])

\* mutant of mape: the error is divided by the forecast
mape_by_forecast(a, f) ==
    FMul(SeriesMean([i \in 1..Len(a) |->
            FAbs(FDiv(FSub(Val(a[i]), Val(f[i])), Val(f[i])))]), Hundred)

\* mape = np.mean(np.abs((actual - forecast) / actual)) * 100
mape(a, f) ==
    FMul(SeriesMean([i \in 1..Len(a) |->
            FAbs(FDiv(FSub(Val(a[i]), Val(f[i])), Val(a[i])))]), Hundred)

\* wape = np.sum(np.abs(actual - forecast)) / np.sum(actual) * 100
wape(a, f) ==
    FMul(FDiv(SeriesSum([i \in 1..Len(a) |-> FAbs(FSub(Val(a[i]), Val(f[i])))]),
              SeriesSum(Column(a))), Hundred)

\* np.mean((actual - forecast) ** 2), the argument of np.sqrt in rmse
mean_squared_error(a, f) ==
    SeriesMean([i \in 1..Len(a) |->
        FMul(FSub(Val(a[i]), Val(f[i])), FSub(Val(a[i]), Val(f[i])))])

\* mutant of bias: the error is taken as actual - forecast
bias_reversed(a, f) ==
    SeriesMean([i \in 1..Len(a) |-> FSub(Val(a[i]), Val(f[i]))])

\* bias = np.mean(forecast - actual)
bias(a, f) ==
    SeriesMean([i \in 1..Len(a) |-> FSub(Val(f[i]), Val(a[i]))])

\* mutant of smape: the mean is taken over the raw array, where a NaN term
\* makes the mean NaN
smape_nan_propagating(a, f) ==
    LET terms == [i \in 1..Len(a) |->
                    FDiv(FMul(Two, FAbs(FSub(Val(f[i]), Val(a[i])))),
                         FAdd(FAbs(Val(a[i])), FAbs(Val(f[i]))))]
    IN  IF NotNaCount(terms) < Len(a) THEN NaN
        ELSE FMul(SeriesMean(terms), Hundred)

\* smape = np.mean(2 * np.abs(forecast - actual)
\*                 / (np.abs(actual) + np.abs(forecast))) * 100
smape(a, f) ==
    FMul(SeriesMean([i \in 1..Len(a) |->
            FDiv(FMul(Two, FAbs(FSub(Val(f[i]), Val(a[i])))),
                 FAdd(FAbs(Val(a[i])), FAbs(Val(f[i]))))]), Hundred)

\* cumulative_error = np.sum(forecast - actual)
cumulative_error(a, f) ==
    SeriesSum([i \in 1..Len(a) |-> FSub(Val(f[i]), Val(a[i]))])

\* mutant of tracking_signal: the division is not guarded
tracking_signal_unguarded(a, f) == FDiv(cumulative_error(a, f), mae(a, f))

\* tracking_signal = cumulative_error / mae if mae != 0 else 0
tracking_signal(a, f) ==
    IF FNe(mae(a, f), Zero)
    THEN FDiv(cumulative_error(a, f), mae(a, f))
    ELSE Zero

calculate_metrics(a, f) ==
    [MAE |-> Round2(mae(a, f)),
     MAPE |-> Round2(mape(a, f)),
     WAPE |-> Round2(wape(a, f)),
     RMSE |-> RoundSqrt2(mean_squared_error(a, f)),
     Bias |-> Round2(bias(a, f)),
     SMAPE |-> Round2(smape(a, f)),
     Tracking_Signal |-> Round2(tracking_signal(a, f))]

(***************************************************************************)
(* BenchmarkEngine.calculate_metrics(df)                                   *)
(***************************************************************************)
\* mae = np.mean(np.abs(actual - forecast))
BE_mae(a, f) ==
    SeriesMean([i \in 1..Len(a) |-> FAbs(FSub(Val(a[i]), Val(f[i])))])

\* actual.replace(0, np.nan)
ReplaceZeroByNaN(s) ==
    [i \in 1..Len(s) |-> IF s[i] = 0 THEN NaN ELSE Val(s[i])]

\* mape = np.mean(np.abs((actual - forecast)
\*                       / actual.replace(0, np.nan))) * 100
\* (the assignment of line 24 is overwritten by this one)
BE_mape(a, f) ==
    FMul(SeriesMean([i \in 1..Len(a) |->
            FAbs(FDiv(FSub(Val(a[i]), Val(f[i])), ReplaceZeroByNaN(a)[i]))]),
         Hundred)

\* wape = np.sum(np.abs(actual - forecast)) / np.sum(actual) * 100
BE_wape(a, f) ==
    FMul(FDiv(SeriesSum([i \in 1..Len(a) |-> FAbs(FSub(Val(a[i]), Val(f[i])))]),
              SeriesSum(Column(a))), Hundred)

\* np.mean((actual - forecast) ** 2), the argument of np.sqrt in rmse
BE_mean_squared_error(a, f) ==
    SeriesMean([i \in 1..Len(a) |->
        FMul(FSub(Val(a[i]), Val(f[i])), FSub(Val(a[i]), Val(f[i])))])

\* mutant of BE_bias: the error is taken as actual - forecast
BE_bias_reversed(a, f) ==
    SeriesMean([i \in 1..Len(a) |-> FSub(Val(a[i]), Val(f[i]))])

\* bias = np.mean(forecast - actual)
BE_bias(a, f) ==
    SeriesMean([i \in 1..Len(a) |-> FSub(Val(f[i]), Val(a[i]))])

BE_calculate_metrics(a, f) ==
    [MAE |-> Round2(BE_mae(a, f)),
     MAPE |-> Round2(BE_mape(a, f)),
     WAPE |-> Round2(BE_wape(a, f)),
     RMSE |-> RoundSqrt2(BE_mean_squared_error(a, f)),
     Bias |-> Round2(BE_bias(a, f))]

(***************************************************************************)
(* Inputs of the metric functions: every pair of equal-length series of    *)
(* length 1..MaxLen over 0.00 .. MaxVal/100, and the scenarios the         *)
(* specification names.                                                    *)
(***************************************************************************)
Vals == 0..MaxVal

Scenario == [actual |-> <<1000, 2000, 3000, 4000>>,
             forecast |-> <<1200, 1800, 3300, 3800>>]

ZeroGuardScenario == [actual |-> <<0, 1000, 2000>>,
                      forecast |-> <<500, 1100, 1900>>]

SeriesOfLen(n) == [1..n -> Vals]

Inputs ==
    {Scenario, ZeroGuardScenario} \cup
    UNION {[actual : SeriesOfLen(n), forecast : SeriesOfLen(n)] : n \in 1..MaxLen}

\* config['datasets'], which is also the key order of every forecast_files
Datasets == <<"dataset1", "dataset2">>

(***************************************************************************)
(* Python dicts keep insertion order: a dict is its keys in insertion      *)
(* order and the mapping; assigning to a key already present keeps the     *)
(* key's position.                                                         *)
(***************************************************************************)
EmptyDict == [keys |-> <<>>, map |-> [x \in {} |-> 0]]

Has(d, key) == key \in DOMAIN d.map

\* d[key] = value
DictSet(d, key, value) ==
    [keys |-> IF Has(d, key) THEN d.keys ELSE Append(d.keys, key),
     map |-> (key :> value) @@ d.map]

\* np.mean(list) and sum(list)/len(list): no NaN is skipped; the mean of an
\* empty list is NaN
RECURSIVE PlainSum(_)
PlainSum(s) ==
    IF Len(s) = 0 THEN Zero ELSE FAdd(Head(s), PlainSum(Tail(s)))

\* mutant of NpMean: the sum is divided by the number of configured datasets
NpMean_over_configured(s) == FDiv(PlainSum(s), Fin(Len(Datasets), 1))

NpMean(s) == FDiv(PlainSum(s), Fin(Len(s), 1))

\* min(items, key=...): the first item is kept until a later one has a
\* strictly smaller key (every comparison with NaN is False)
RECURSIVE MinScan(_, _, _, _)
MinScan(keys, keyOf, k, best) ==
    IF k > Len(keys) THEN best
    ELSE MinScan(keys, keyOf, k + 1,
                 IF FLt(keyOf[keys[k]], keyOf[best]) THEN keys[k] ELSE best)

\* min(d.items(), key=lambda x: keyOf[x[0]])[0] for a non-empty dict
PyMinKey(d, keyOf) == MinScan(d.keys, keyOf, 2, d.keys[1])

(***************************************************************************)
(* Configuration and forecast files.  config['datasets'] lists the dataset *)
(* keys; every vendor entry maps each key to a file, which is missing,     *)
(* unreadable by pd.read_csv(parse_dates=['Date']) (it raises), lacks the  *)
(* Date column (read_csv raises as well), lacks the Actual or Forecast     *)
(* column, or holds a table.  Vendor names are drawn up to renaming (the   *)
(* i-th new name is the i-th of VendorPool); two entries may carry the     *)
(* same name.                                                              *)
(***************************************************************************)
VendorPool == <<"AWS", "Azure", "Databricks">>

\* the tables a forecast file may hold (values in hundredths)
Frames == <<[actual |-> <<10>>, forecast |-> <<11>>],
            [actual |-> <<10>>, forecast |-> <<12>>],
            [actual |-> <<0>>, forecast |-> <<0>>]>>

Missing == [st |-> "missing", frame |-> 0]

Unreadable == [st |-> "unreadable", frame |-> 0]

NoColumn == [st |-> "no_column", frame |-> 0]

NoDate == [st |-> "no_date", frame |-> 0]

NoPath == [st |-> "no_path", frame |-> 0]

\* a line printed about a vendor entry (and, in the engine, a dataset)
Msg(vendor_name, dataset_key, text) ==
    [vendor |-> vendor_name, dataset |-> dataset_key, msg |-> text]

Valid(k) == [st |-> "valid", frame |-> k]

ValidFiles == {Valid(k) : k \in 1..Len(Frames)}

NameListsUpTo(max) ==
    {s \in UNION {[1..n -> {VendorPool[j] : j \in 1..Len(VendorPool)}] :
                     n \in 1..max} :
        \A i \in 1..Len(s) : \E j \in (1..i) \cap DOMAIN VendorPool :
            /\ s[i] = VendorPool[j]
            /\ j > 1 => \E k \in 1..(i - 1) : s[k] = VendorPool[j - 1]}

NameLists == NameListsUpTo(MaxVendors)

\* the metric sets of the tables, as BenchmarkEngine computes them
EngineMetrics ==
    [k \in 1..Len(Frames) |->
        BE_calculate_metrics(Frames[k].actual, Frames[k].forecast)]

\* the metric sets of the tables, as metrics_calculator computes them
CalculatorMetrics ==
    [k \in 1..Len(Frames) |->
        calculate_metrics(Frames[k].actual, Frames[k].forecast)]

NoneVendor == "None"

EmptyResults == [vendors |-> EmptyDict, summary |-> EmptyDict, overall_best |-> <<>>]

\* the variables of programs that are not running
MetricIdle ==
    /\ actual = <<>>
    /\ forecast = <<>>
    /\ called = {}
    /\ mc_metrics = [MAE |-> NaN]
    /\ be_metrics = [MAE |-> NaN]
    /\ ev_terms = <<>>
    /\ scores = EmptyDict.map

EngineIdle ==
    /\ files = <<>>
    /\ results = EmptyResults
    /\ vendor_avg_mape = EmptyDict
    /\ results_file = <<>>
    /\ vendor_summary = EmptyDict
    /\ vendor_cards = <<>>

CalculatorIdle ==
    /\ mc_files = <<>>
    /\ vendor_metrics = EmptyDict
    /\ metrics_file = <<>>
    /\ best_performers = <<>>

RunIdle ==
    /\ pc = "idle"
    /\ vi = 0
    /\ vendor_names = <<>>
    /\ log = <<>>

\* the scripts that read the vendor entries of the configuration
VendorScripts == {"metrics_calculator.py", "visualization_generator.py"}

\* the vendor entries a script accepted, and those it loaded a table for
NoEntries == [entries |-> {}, processed |-> {}]

ScriptIdle ==
    /\ config_file = "absent"
    /\ started = <<>>
    /\ returncodes = <<>>
    /\ fs = {}
    /\ accepted = [script \in VendorScripts |-> NoEntries]
    /\ faults = {}
    /\ forecast_runs = <<>>
    /\ calls = <<>>

NotCalculated == [MAE |-> NaN]

Init ==
    /\ ScriptIdle
    /\ \E in \in Inputs : actual = in.actual /\ forecast = in.forecast
    /\ called = {}
    /\ mc_metrics = NotCalculated
    /\ be_metrics = NotCalculated
    /\ ev_terms = <<>>
    /\ scores = EmptyDict.map
    /\ RunIdle
    /\ EngineIdle
    /\ CalculatorIdle

\* metrics = calculate_metrics(df) in metrics_calculator
CalculateMetrics ==
    /\ pc = "idle"
    /\ "mc" \notin called
    /\ called' = called \cup {"mc"}
    /\ mc_metrics' = calculate_metrics(actual, forecast)
    /\ UNCHANGED <<actual, forecast, be_metrics, ev_terms, scores>>
    /\ UNCHANGED <<run_vars, engine_vars, calculator_vars, script_vars>>

\* metrics = self.calculate_metrics(df) in BenchmarkEngine
EngineCalculateMetrics ==
    /\ pc = "idle"
    /\ "be" \notin called
    /\ called' = called \cup {"be"}
    /\ be_metrics' = BE_calculate_metrics(actual, forecast)
    /\ UNCHANGED <<actual, forecast, mc_metrics, ev_terms, scores>>
    /\ UNCHANGED <<run_vars, engine_vars, calculator_vars, script_vars>>

Next == CalculateMetrics \/ EngineCalculateMetrics

Spec == Init /\ [][Next]_vars

(***************************************************************************)
(* benchmark_engine.py: BenchmarkEngine.run_benchmark                      *)
(***************************************************************************)
DatasetKeys == {Datasets[k] : k \in 1..Len(Datasets)}

\* what a file of the engine's configuration can be (a table without Date
\* makes pd.read_csv raise, as an unreadable file does)
EngineFileStates == {Missing, Unreadable, NoColumn} \cup ValidFiles

\* mutant of ProcessDatasets: the table read for the first key is kept and
\* evaluated again for every later key whose file exists
RECURSIVE ProcessDatasets_stale_table(_, _, _)
ProcessDatasets_stale_table(forecast_files, data, k) ==
    IF k > Len(Datasets) THEN [data |-> data, raised |-> FALSE]
    ELSE LET dataset_key == Datasets[k]
             file == forecast_files[dataset_key]
             first == forecast_files[Datasets[1]]
             read == IF first.st = "valid" THEN first ELSE file
         IN  IF file.st = "missing"
             THEN ProcessDatasets_stale_table(forecast_files, data, k + 1)
             ELSE IF file.st = "valid"
             THEN ProcessDatasets_stale_table(forecast_files,
                      DictSet(data, dataset_key,
                          [metrics |-> EngineMetrics[read.frame],
                           records |-> Len(Frames[read.frame].actual)]),
                      k + 1)
             ELSE [data |-> data, raised |-> TRUE]

\* the inner loop over vendor['forecast_files'].items() from the k-th key
\* on; data is results['vendors'][vendor_name] so far.  A file that exists
\* but cannot be read makes pd.read_csv raise, and a table without Actual or
\* Forecast makes calculate_metrics raise KeyError; nothing catches either.
RECURSIVE ProcessDatasets(_, _, _)
ProcessDatasets(forecast_files, data, k) ==
    IF k > Len(Datasets) THEN [data |-> data, raised |-> FALSE]
    ELSE LET dataset_key == Datasets[k]
             file == forecast_files[dataset_key]
         IN  IF file.st = "missing"
             THEN ProcessDatasets(forecast_files, data, k + 1)
             ELSE IF file.st = "valid"
             THEN ProcessDatasets(forecast_files,
                      DictSet(data, dataset_key,
                          [metrics |-> EngineMetrics[file.frame],
                           records |-> Len(Frames[file.frame].actual)]),
                      k + 1)
             ELSE [data |-> data, raised |-> TRUE]

\* the lines the inner loop prints from the k-th key on, up to an exception
RECURSIVE PrintedByDatasets(_, _, _)
PrintedByDatasets(vendor_name, forecast_files, k) ==
    IF k > Len(Datasets) THEN <<>>
    ELSE LET dataset_key == Datasets[k]
             file == forecast_files[dataset_key]
         IN  IF file.st = "missing"
             THEN <<Msg(vendor_name, dataset_key, "file_not_found")>>
                      \o PrintedByDatasets(vendor_name, forecast_files, k + 1)
             ELSE IF file.st = "valid"
             THEN <<Msg(vendor_name, dataset_key, "calculated")>>
                      \o PrintedByDatasets(vendor_name, forecast_files, k + 1)
             ELSE <<>>

\* for dataset: the scan over results['vendors'].items() for the best vendor
RECURSIVE BestScan(_, _, _, _)
BestScan(vendors, dataset, k, best) ==
    IF k > Len(vendors.keys) THEN best
    ELSE LET vendor_name == vendors.keys[k]
             vendor_data == vendors.map[vendor_name]
         IN  BestScan(vendors, dataset, k + 1,
                 IF /\ Has(vendor_data, dataset)
                    /\ FLt(vendor_data.map[dataset].metrics.MAPE, best.best_mape)
                 THEN [best_vendor |-> vendor_name,
                       best_mape |-> vendor_data.map[dataset].metrics.MAPE]
                 ELSE best)

BestForDataset(vendors, dataset) ==
    BestScan(vendors, dataset, 1, [best_vendor |-> NoneVendor, best_mape |-> PInf])

\* the loop over self.config['datasets'] from the k-th dataset on
RECURSIVE SummaryOfDatasets(_, _, _)
SummaryOfDatasets(vendors, summary, k) ==
    IF k > Len(Datasets) THEN summary
    ELSE SummaryOfDatasets(vendors,
             DictSet(summary, Datasets[k], BestForDataset(vendors, Datasets[k])),
             k + 1)

\* the values of one metric over a vendor's datasets, in dict order
MetricValues(vendor_data, metric) ==
    [k \in 1..Len(vendor_data.keys) |->
        vendor_data.map[vendor_data.keys[k]].metrics[metric]]

\* vendor_avg_mape: the loop over results['vendors'].items() from the k-th on
RECURSIVE AvgMapeScan(_, _, _)
AvgMapeScan(vendors, k, avg) ==
    IF k > Len(vendors.keys) THEN avg
    ELSE LET vendor_name == vendors.keys[k]
             mapes == MetricValues(vendors.map[vendor_name], "MAPE")
         IN  AvgMapeScan(vendors, k + 1,
                 IF Len(mapes) > 0
                 THEN DictSet(avg, vendor_name, NpMean(mapes))
                 ELSE avg)

\* mutant of VendorAvgMape: the mean is taken for every vendor, without
\* the test "if mapes"
RECURSIVE AvgMapeScanUnguarded(_, _, _)
AvgMapeScanUnguarded(vendors, k, avg) ==
    IF k > Len(vendors.keys) THEN avg
    ELSE AvgMapeScanUnguarded(vendors, k + 1,
             DictSet(avg, vendors.keys[k],
                 NpMean(MetricValues(vendors.map[vendors.keys[k]], "MAPE"))))

VendorAvgMape_unguarded(vendors) == AvgMapeScanUnguarded(vendors, 1, EmptyDict)

VendorAvgMape(vendors) == AvgMapeScan(vendors, 1, EmptyDict)

\* summary['overall_best'], a list of no or one entry; it is assigned only
\* "if vendor_avg_mape", otherwise what the summary held stays
OverallBest(avg, previous) ==
    IF Len(avg.keys) > 0
    THEN LET best_overall == PyMinKey(avg, avg.map)
         IN  <<[vendor |-> best_overall,
                avg_mape |-> Round2(avg.map[best_overall])]>>
    ELSE previous

\* mutant of ResetResults: run_benchmark goes on with the results it has
ResetResults_keeping(previous) == previous

\* self.results = {'vendors': {}, 'summary': {}, 'timestamp': ...}
ResetResults(previous) == EmptyResults

\* json.dump / json.load of the results: keys are strings, floats are
\* written by repr (NaN and Infinity included) and read back unchanged
json_dump(r) == r

\* engine = BenchmarkEngine(); the configuration and the files on disk
InitBenchmark ==
    /\ MetricIdle
    /\ ScriptIdle
    /\ CalculatorIdle
    /\ vendor_names \in NameLists
    /\ files \in [1..Len(vendor_names) -> [DatasetKeys -> EngineFileStates]]
    /\ pc = "ready"
    /\ vi = 0
    /\ log = <<>>
    /\ results = EmptyResults
    /\ vendor_avg_mape = EmptyDict
    /\ results_file = <<>>
    /\ vendor_summary = EmptyDict
    /\ vendor_cards = <<>>

\* run_benchmark: self.results = {'vendors': {}, 'summary': {}, ...}
RunBenchmark ==
    /\ pc = "ready"
    /\ results' = ResetResults(results)
    /\ vi' = 1
    /\ pc' = "vendors"
    /\ UNCHANGED <<vendor_names, log, files, vendor_avg_mape, results_file,
                   vendor_summary, vendor_cards>>
    /\ UNCHANGED <<metric_vars, calculator_vars, script_vars>>

\* one iteration of: for vendor in self.config['vendors']
ProcessVendor ==
    /\ pc = "vendors"
    /\ vi <= Len(vendor_names)
    /\ LET vendor_name == vendor_names[vi]
           out == ProcessDatasets(files[vi], EmptyDict, 1)
       IN  /\ results' = [results EXCEPT
                             !.vendors = DictSet(@, vendor_name, out.data)]
           /\ pc' = IF out.raised THEN "raised" ELSE "vendors"
           /\ vi' = IF out.raised THEN vi ELSE vi + 1
           /\ log' = log \o PrintedByDatasets(vendor_name, files[vi], 1)
    /\ UNCHANGED <<vendor_names, files, vendor_avg_mape, results_file,
                   vendor_summary, vendor_cards>>
    /\ UNCHANGED <<metric_vars, calculator_vars, script_vars>>

\* self._calculate_summary()
CalculateSummary ==
    /\ pc = "vendors"
    /\ vi > Len(vendor_names)
    /\ vendor_avg_mape' = VendorAvgMape(results.vendors)
    /\ results' = [results EXCEPT
                      !.summary = SummaryOfDatasets(results.vendors, @, 1),
                      !.overall_best = OverallBest(VendorAvgMape(results.vendors), @)]
    /\ pc' = "save"
    /\ UNCHANGED <<vi, vendor_names, log, files, results_file,
                   vendor_summary, vendor_cards>>
    /\ UNCHANGED <<metric_vars, calculator_vars, script_vars>>

\* json.dump(self.results, f) to output/benchmark_results.json
SaveResults ==
    /\ pc = "save"
    /\ results_file' = <<json_dump(results)>>
    /\ pc' = "saved"
    /\ log' = Append(log, Msg("", "", "benchmark_complete"))
    /\ UNCHANGED <<vi, vendor_names, files, results, vendor_avg_mape,
                   vendor_summary, vendor_cards>>
    /\ UNCHANGED <<metric_vars, calculator_vars, script_vars>>

(***************************************************************************)
(* create_visualizations.create_summary_chart and                          *)
(* create_dashboard.generate_dashboard: two scripts that read the results  *)
(* file once the engine has written it, each run at most once here.        *)
(***************************************************************************)
\* vendor_summary: the loop over results['vendors'].items() from the k-th on
RECURSIVE SummaryChartScan(_, _, _)
SummaryChartScan(vendors, k, summary) ==
    IF k > Len(vendors.keys) THEN summary
    ELSE LET vendor_name == vendors.keys[k]
             vendor_data == vendors.map[vendor_name]
         IN  SummaryChartScan(vendors, k + 1,
                 DictSet(summary, vendor_name,
                     [metric \in {"MAE", "MAPE", "WAPE", "RMSE"} |->
                         NpMean(MetricValues(vendor_data, metric))]))

create_summary_chart(loaded) == SummaryChartScan(loaded.vendors, 1, EmptyDict)

\* the vendor cards: the loop over results['vendors'].items()
generate_dashboard(loaded) ==
    [k \in 1..Len(loaded.vendors.keys) |->
        LET vendor_name == loaded.vendors.keys[k]
            mapes == MetricValues(loaded.vendors.map[vendor_name], "MAPE")
        IN  [vendor |-> vendor_name,
             avg_mape |-> IF Len(mapes) > 0
                          THEN FDiv(PlainSum(mapes), Fin(Len(mapes), 1))
                          ELSE Zero,
             is_best |-> /\ Len(loaded.overall_best) > 0
                         /\ loaded.overall_best[1].vendor = vendor_name]]

CreateSummaryChart ==
    /\ pc = "saved"
    /\ Len(vendor_summary.keys) = 0
    /\ vendor_summary' = create_summary_chart(results_file[1])
    /\ UNCHANGED <<pc, vi, vendor_names, log, files, results, vendor_avg_mape,
                   results_file, vendor_cards>>
    /\ UNCHANGED <<metric_vars, calculator_vars, script_vars>>

GenerateDashboard ==
    /\ pc = "saved"
    /\ Len(vendor_cards) = 0
    /\ vendor_cards' = generate_dashboard(results_file[1])
    /\ UNCHANGED <<pc, vi, vendor_names, log, files, results, vendor_avg_mape,
                   results_file, vendor_summary>>
    /\ UNCHANGED <<metric_vars, calculator_vars, script_vars>>

NextBenchmark ==
    \/ RunBenchmark
    \/ ProcessVendor
    \/ CalculateSummary
    \/ SaveResults
    \/ CreateSummaryChart
    \/ GenerateDashboard

SpecBenchmark == InitBenchmark /\ [][NextBenchmark]_vars

(***************************************************************************)
(* metrics_calculator.py: main                                             *)
(***************************************************************************)
\* what the forecast_file of a vendor entry can be (NoPath: the entry has
\* no 'forecast_file')
CalculatorFileStates ==
    {NoPath, Missing, Unreadable, NoDate, NoColumn} \cup ValidFiles

\* load_forecast_data: the table, or None (<<>>) on a missing column or on
\* any exception
load_forecast_data(file) ==
    IF file.st = "valid" THEN <<file.frame>> ELSE <<>>

\* what load_forecast_data prints: the warning about missing columns, or
\* the error of the exception it caught (a missing or unreadable file, or
\* parse_dates=['Date'] on a table without Date)
load_forecast_data_prints(vendor_name, file) ==
    IF file.st = "valid" THEN <<>>
    ELSE IF file.st = "no_column"
    THEN <<Msg(vendor_name, "", "missing_columns")>>
    ELSE <<Msg(vendor_name, "", "error_loading")>>

\* min(vendor_metrics.items(), key=lambda x: x[1][metric])[0]
BestBy(metrics, metric) ==
    PyMinKey(metrics, [v \in DOMAIN metrics.map |-> metrics.map[v][metric]])

\* print_metrics_summary: the best performers it prints
print_metrics_summary(metrics) ==
    [MAPE |-> BestBy(metrics, "MAPE"),
     WAPE |-> BestBy(metrics, "WAPE"),
     RMSE |-> BestBy(metrics, "RMSE")]

\* save_metrics: output_data
save_metrics(metrics) ==
    [metrics |-> metrics,
     total_vendors |-> Len(metrics.keys),
     best_performer_mape |->
        IF Len(metrics.keys) > 0
        THEN PyMinKey(metrics, [v \in DOMAIN metrics.map |-> metrics.map[v].MAPE])
        ELSE NoneVendor]

InitCalculator ==
    /\ MetricIdle
    /\ ScriptIdle
    /\ EngineIdle
    /\ vendor_names \in NameListsUpTo(MaxCalculatorVendors)
    /\ mc_files \in [1..Len(vendor_names) -> CalculatorFileStates]
    /\ pc = "mc_vendors"
    /\ vi = 1
    /\ log = <<>>
    /\ vendor_metrics = EmptyDict
    /\ metrics_file = <<>>
    /\ best_performers = <<>>

\* one iteration of: for vendor_info in vendors
MainProcessVendor ==
    /\ pc = "mc_vendors"
    /\ vi <= Len(vendor_names)
    /\ LET vendor_name == vendor_names[vi]
           file == mc_files[vi]
           df == load_forecast_data(file)
       IN  /\ vendor_metrics' =
                  IF file.st = "no_path" THEN vendor_metrics
                  ELSE IF Len(df) > 0
                  THEN DictSet(vendor_metrics, vendor_name, CalculatorMetrics[df[1]])
                  ELSE vendor_metrics
           /\ log' =
                  IF file.st = "no_path"
                  THEN Append(log, Msg(vendor_name, "", "skipping_invalid"))
                  ELSE Append(log \o load_forecast_data_prints(vendor_name, file),
                              Msg(vendor_name, "",
                                  IF Len(df) > 0 THEN "calculated" ELSE "failed"))
    /\ vi' = vi + 1
    /\ UNCHANGED <<pc, vendor_names, mc_files, metrics_file, best_performers>>
    /\ UNCHANGED <<metric_vars, engine_vars, script_vars>>

\* if vendor_metrics: save_metrics(vendor_metrics);
\* print_metrics_summary(vendor_metrics)
MainSaveMetrics ==
    /\ pc = "mc_vendors"
    /\ vi > Len(vendor_names)
    /\ Len(vendor_metrics.keys) > 0
    /\ metrics_file' = <<save_metrics(vendor_metrics)>>
    /\ best_performers' = <<print_metrics_summary(vendor_metrics)>>
    /\ log' = Append(log, Msg("", "", "metrics_saved"))
    /\ pc' = "mc_done"
    /\ UNCHANGED <<vi, vendor_names, mc_files, vendor_metrics>>
    /\ UNCHANGED <<metric_vars, engine_vars, script_vars>>

\* else: "No metrics could be calculated!"
MainNoMetrics ==
    /\ pc = "mc_vendors"
    /\ vi > Len(vendor_names)
    /\ Len(vendor_metrics.keys) = 0
    /\ log' = Append(log, Msg("", "", "no_metrics"))
    /\ pc' = "mc_done"
    /\ UNCHANGED <<vi, vendor_names, mc_files, vendor_metrics, metrics_file,
                   best_performers>>
    /\ UNCHANGED <<metric_vars, engine_vars, script_vars>>

NextCalculator == MainProcessVendor \/ MainSaveMetrics \/ MainNoMetrics

SpecCalculator == InitCalculator /\ [][NextCalculator]_vars

\* either program is run
InitPrograms == InitBenchmark \/ InitCalculator

NextPrograms == NextBenchmark \/ NextCalculator

SpecPrograms == InitPrograms /\ [][NextPrograms]_vars

\* a single call of calculate_metrics, or a run of either program
InitAll == Init \/ InitPrograms

NextAll == Next \/ NextPrograms

SpecAll == InitAll /\ [][NextAll]_vars

(***************************************************************************)
(* ResidualModel, ProbabilisticScorer (CRPS), DriftDetector and            *)
(* TurningPointClassifier.  The sampling arithmetic is in integers: for a  *)
(* series of n points, one hundredth is ScaleUnit(n) units, so that the    *)
(* robust scale 1.4826 * MAD and the fallback epsilon are whole numbers.   *)
(***************************************************************************)
RECURSIVE IntSum(_)
IntSum(s) == IF Len(s) = 0 THEN 0 ELSE Head(s) + IntSum(Tail(s))

RECURSIVE Insert(_, _)
Insert(x, s) ==
    IF Len(s) = 0 THEN <<x>>
    ELSE IF x <= Head(s) THEN <<x>> \o s
    ELSE <<Head(s)>> \o Insert(x, Tail(s))

RECURSIVE Sorted(_)
Sorted(s) == IF Len(s) = 0 THEN <<>> ELSE Insert(Head(s), Sorted(Tail(s)))

\* twice the median of a non-empty sequence of integers
Median2(s) ==
    LET t == Sorted(s)
        n == Len(s)
    IN  IF n % 2 = 1 THEN 2 * t[(n + 1) \div 2]
        ELSE t[n \div 2] + t[n \div 2 + 1]

\* r_i = actual_i - forecast_i, in hundredths
Residuals(a, f) == [i \in 1..Len(a) |-> a[i] - f[i]]

\* four times the median absolute deviation from the median residual
MAD4(r) == Median2([i \in 1..Len(r) |-> Abs(2 * r[i] - Median2(r))])

ScaleUnit(n) == 40000 * n

\* the scale of the ensemble in units: 1.4826 * MAD(r), or when that is 0
\* an epsilon proportional to the mean absolute actual (a thousandth of it)
RobustScale(a, f) ==
    LET mad4 == MAD4(Residuals(a, f))
    IN  IF mad4 # 0
        THEN 14826 * mad4 * Len(a)
        ELSE 40 * IntSum([i \in 1..Len(a) |-> Abs(a[i])])

\* the standard normal variates a draw can yield here, in whole deviations
ZVals == {-1, 0, 1}

\* the ensemble of a time step: one variate per sample, centred at the
\* forecast with the robust scale
Ensemble(centre, scale, zs) == [j \in 1..Len(zs) |-> centre + scale * zs[j]]

\* mutant of CrpsTerm: the ensemble spread is subtracted in full, not halved
CrpsTerm_full_spread(y, S) ==
    2 * Len(S) * IntSum([j \in 1..Len(S) |-> Abs(S[j] - y)])
        - 2 * IntSum([j \in 1..Len(S) |->
                         IntSum([k \in 1..Len(S) |-> Abs(S[j] - S[k])])])

\* 2 m^2 CRPS_i = 2 m sum_j |S_ij - y| - sum_jk |S_ij - S_ik|, in units
CrpsTerm(y, S) ==
    2 * Len(S) * IntSum([j \in 1..Len(S) |-> Abs(S[j] - y)])
        - IntSum([j \in 1..Len(S) |->
                     IntSum([k \in 1..Len(S) |-> Abs(S[j] - S[k])])])

\* sampling: the mean of CRPS_i over the time steps
crps_sampling(terms, m) ==
    Fin(IntSum(terms),
        2 * m * m * Len(terms) * ScaleUnit(Len(terms)) * 100)

\* closed_form: mean(|residual|) + 0.5 * std(residual); with
\* X = n sum r^2 - (sum r)^2 the std is sqrt(X) / n hundredths, the root
\* taken to three decimals
crps_closed_form(a, f) ==
    LET r == Residuals(a, f)
        n == Len(a)
        X == n * IntSum([i \in 1..n |-> r[i] * r[i]]) - IntSum(r) * IntSum(r)
        root == ISqrtBetween(X * 1000000, 1, 0, 1000 * (X + 1))
    IN  Fin(2000 * IntSum([i \in 1..n |-> Abs(r[i])]) + root, 2 * n * 1000 * 100)

\* the number of values of s that are <= x
CountUpTo(s, x) == Cardinality({i \in 1..Len(s) : s[i] <= x})

\* the largest member of a non-empty set of integers
MaxOf(S) == CHOOSE x \in S : \A y \in S : y <= x

\* mutant of drift_score: both counts are divided by the length of the head
drift_score_head_length(a) ==
    LET mid == Len(a) \div 2
        head == SubSeq(a, 1, mid)
        tail == SubSeq(a, mid + 1, Len(a))
    IN  IF mid = 0 THEN Zero
        ELSE Fin(MaxOf({Abs(CountUpTo(head, a[i]) - CountUpTo(tail, a[i])) :
                           i \in 1..Len(a)}),
                 Len(head))

\* the two-sample Kolmogorov-Smirnov statistic of the halves of actual
drift_score(a) ==
    LET mid == Len(a) \div 2
        head == SubSeq(a, 1, mid)
        tail == SubSeq(a, mid + 1, Len(a))
    IN  IF mid = 0 THEN Zero
        ELSE Fin(MaxOf({Abs(CountUpTo(head, a[i]) * Len(tail)
                              - CountUpTo(tail, a[i]) * Len(head)) :
                           i \in 1..Len(a)}),
                 Len(head) * Len(tail))

\* the signs of the first differences
DiffSigns(s) == [i \in 1..(Len(s) - 1) |-> Sign(s[i + 1] - s[i])]

\* the turning-point indicator, of length n - 2
TurningPoints(s) ==
    [i \in 1..(Len(s) - 2) |->
        IF DiffSigns(s)[i + 1] # DiffSigns(s)[i] THEN 1 ELSE 0]

\* mutant of turning_point_f1: no test for a degenerate indicator sequence
turning_point_f1_undefined(a, f) ==
    LET t == TurningPoints(a)
        p == TurningPoints(f)
        tp == Cardinality({i \in 1..Len(t) : t[i] = 1 /\ p[i] = 1})
        fp == Cardinality({i \in 1..Len(t) : t[i] = 0 /\ p[i] = 1})
        fn == Cardinality({i \in 1..Len(t) : t[i] = 1 /\ p[i] = 0})
    IN  FDiv(Fin(2 * tp, 1), Fin(2 * tp + fp + fn, 1))

\* F1 of the forecast's turning points against the actual's
turning_point_f1(a, f) ==
    LET t == TurningPoints(a)
        p == TurningPoints(f)
        tp == Cardinality({i \in 1..Len(t) : t[i] = 1 /\ p[i] = 1})
        fp == Cardinality({i \in 1..Len(t) : t[i] = 0 /\ p[i] = 1})
        fn == Cardinality({i \in 1..Len(t) : t[i] = 1 /\ p[i] = 0})
    IN  IF Len(a) < 4 THEN Zero
        ELSE IF tp + fn = 0 \/ tp + fp = 0 THEN Zero
        ELSE Fin(2 * tp, 2 * tp + fp + fn)

\* the series the scorers are evaluated on
CrpsInputs ==
    UNION {[actual : [1..n -> {0, 2}], forecast : [1..n -> {0, 2}]] :
              n \in 2..MaxCrpsLen}

ConstantSeries == <<500, 500, 500, 500, 500, 500>>

DriftInputs == {ConstantSeries} \cup UNION {[1..n -> Vals] : n \in 0..MaxEvalLen}

MonotonicScenario == [actual |-> <<100, 200, 300, 400>>,
                      forecast |-> <<400, 300, 200, 100>>]

TurningPointInputs ==
    {MonotonicScenario} \cup
    UNION {[actual : [1..n -> Vals], forecast : [1..n -> Vals]] :
              n \in 0..MaxEvalLen}

Scored(name) == name \in DOMAIN scores

\* one evaluation: of CRPS under both strategies, of the drift score, or of
\* the turning-point F1
InitEvaluator ==
    /\ EngineIdle
    /\ ScriptIdle
    /\ CalculatorIdle
    /\ vi = 0
    /\ vendor_names = <<>>
    /\ log = <<>>
    /\ called = {}
    /\ mc_metrics = NotCalculated
    /\ be_metrics = NotCalculated
    /\ ev_terms = <<>>
    /\ scores = EmptyDict.map
    /\ \/ /\ pc = "crps"
          /\ \E in \in CrpsInputs : actual = in.actual /\ forecast = in.forecast
       \/ /\ pc = "drift"
          /\ actual \in DriftInputs
          /\ forecast = actual
       \/ /\ pc = "turning_points"
          /\ \E in \in TurningPointInputs :
                actual = in.actual /\ forecast = in.forecast

\* sampling, one time step: the ensemble is drawn and CRPS_i computed
SampleStep ==
    /\ pc = "crps"
    /\ Len(ev_terms) < Len(actual)
    /\ LET i == Len(ev_terms) + 1
           unit == ScaleUnit(Len(actual))
           scale == RobustScale(actual, forecast)
       IN  \E zs \in [1..MaxSamples -> ZVals] :
               ev_terms' = Append(ev_terms,
                   CrpsTerm(actual[i] * unit,
                            Ensemble(forecast[i] * unit, scale, zs)))
    /\ UNCHANGED <<actual, forecast, called, mc_metrics, be_metrics, scores>>
    /\ UNCHANGED <<run_vars, engine_vars, calculator_vars, script_vars>>

\* sampling: the final score, once every time step has its CRPS_i
ScoreSampling ==
    /\ pc = "crps"
    /\ Len(ev_terms) = Len(actual)
    /\ ~Scored("CRPS_sampling")
    /\ scores' = ("CRPS_sampling" :> crps_sampling(ev_terms, MaxSamples)) @@ scores
    /\ UNCHANGED <<actual, forecast, called, mc_metrics, be_metrics, ev_terms>>
    /\ UNCHANGED <<run_vars, engine_vars, calculator_vars, script_vars>>

ScoreClosedForm ==
    /\ pc = "crps"
    /\ ~Scored("CRPS_closed_form")
    /\ scores' = ("CRPS_closed_form" :> crps_closed_form(actual, forecast)) @@ scores
    /\ UNCHANGED <<actual, forecast, called, mc_metrics, be_metrics, ev_terms>>
    /\ UNCHANGED <<run_vars, engine_vars, calculator_vars, script_vars>>

DetectDrift ==
    /\ pc = "drift"
    /\ ~Scored("Drift_Score")
    /\ scores' = ("Drift_Score" :> drift_score(actual)) @@ scores
    /\ UNCHANGED <<actual, forecast, called, mc_metrics, be_metrics, ev_terms>>
    /\ UNCHANGED <<run_vars, engine_vars, calculator_vars, script_vars>>

ClassifyTurningPoints ==
    /\ pc = "turning_points"
    /\ ~Scored("Turning_Point_F1")
    /\ scores' = ("Turning_Point_F1" :> turning_point_f1(actual, forecast)) @@ scores
    /\ UNCHANGED <<actual, forecast, called, mc_metrics, be_metrics, ev_terms>>
    /\ UNCHANGED <<run_vars, engine_vars, calculator_vars, script_vars>>

NextEvaluator ==
    \/ SampleStep
    \/ ScoreSampling
    \/ ScoreClosedForm
    \/ DetectDrift
    \/ ClassifyTurningPoints

SpecEvaluator == InitEvaluator /\ [][NextEvaluator]_vars

(***************************************************************************)
(* Repeated calls of run_benchmark on one BenchmarkEngine: the             *)
(* configuration was read by __init__ and stays, a file may change between *)
(* two calls.  calls holds the last completed call; log is the output of   *)
(* the current one.  The files here exist with a table or do not exist.    *)
(***************************************************************************)
RerunFileStates == {Missing, Valid(1), Valid(2)}

InitRerun ==
    /\ MetricIdle
    /\ ScriptIdle
    /\ CalculatorIdle
    /\ vendor_names \in NameLists
    /\ files \in [1..Len(vendor_names) -> [DatasetKeys -> RerunFileStates]]
    /\ pc = "ready"
    /\ vi = 0
    /\ log = <<>>
    /\ results = EmptyResults
    /\ vendor_avg_mape = EmptyDict
    /\ results_file = <<>>
    /\ vendor_summary = EmptyDict
    /\ vendor_cards = <<>>

\* run_benchmark has returned and is called again; at most one file has
\* changed since
CallAgain ==
    /\ pc = "saved"
    /\ calls' = <<[files |-> files, results |-> results]>>
    /\ \/ files' = files
       \/ \E i \in 1..Len(vendor_names), d \in DatasetKeys :
             \E file \in RerunFileStates \ {files[i][d]} :
                 files' = [files EXCEPT ![i][d] = file]
    /\ pc' = "ready"
    /\ vi' = 0
    /\ log' = <<>>
    /\ UNCHANGED <<vendor_names, results, vendor_avg_mape, results_file,
                   vendor_summary, vendor_cards>>
    /\ UNCHANGED <<config_file, started, returncodes, fs, accepted, faults,
                   forecast_runs>>
    /\ UNCHANGED <<metric_vars, calculator_vars>>

NextRerun ==
    \/ RunBenchmark
    \/ ProcessVendor
    \/ CalculateSummary
    \/ SaveResults
    \/ CallAgain

SpecRerun == InitRerun /\ [][NextRerun]_vars

(***************************************************************************)
(* run_all.py: main runs five scripts as subprocesses, one after the       *)
(* other.  A script is one step here: what it reads and writes is a set of *)
(* paths (fs), a vendor's forecast files standing as one path.  A script   *)
(* in which a file or network operation fails is recorded in faults; when  *)
(* the script does not handle the failure it exits with a non-zero code.   *)
(***************************************************************************)
Scripts == <<"data_generator.py", "forecast_generator.py",
             "metrics_calculator.py", "visualization_generator.py",
             "dashboard_creator.py">>

\* the vendors of the default configuration, and of any other one here
ConfigVendors == {VendorPool[j] : j \in 1..Len(VendorPool)}

ForecastPath == [v \in ConfigVendors |->
                    IF v = "AWS" THEN "input/aws_forecast.csv"
                    ELSE IF v = "Azure" THEN "input/azure_forecast.csv"
                    ELSE "input/databricks_forecast.csv"]

MetricsResults == "output/metrics_results.json"

Dashboard == "output/dashboard.html"

InputData == "input/datasets"

\* the key under which a configuration gives a vendor's files: the default
\* one written by run_all.main uses 'forecast_files'
SchemaOf(config) ==
    IF config \in {"default", "forecast_files"} THEN "forecast_files"
    ELSE "forecast_file"

\* vendor_info.get('forecast_file'): a list of no (None) or one path
FilePathOf(config, v) ==
    IF SchemaOf(config) = "forecast_file" THEN <<ForecastPath[v]>> ELSE <<>>

\* the entries that pass "if not vendor_name or not file_path", and those
\* of them whose table could be read
EntriesOf(config, paths) ==
    LET entries == {v \in ConfigVendors : Len(FilePathOf(config, v)) > 0}
    IN  [entries |-> entries,
         processed |-> {v \in entries : FilePathOf(config, v)[1] \in paths}]

\* mutant of run: the return code is not looked at
run_ignoring_returncode(returncode) == TRUE

\* run(script): True if the subprocess returned 0
run(returncode) == returncode = 0

\* main(): the configuration file and the files left by earlier runs
InitRunAll ==
    /\ MetricIdle
    /\ EngineIdle
    /\ CalculatorIdle
    /\ vi = 0
    /\ vendor_names = <<>>
    /\ log = <<>>
    /\ pc = "config"
    /\ config_file \in {"absent", "forecast_files", "forecast_file"}
    /\ fs \in SUBSET ({MetricsResults} \cup {ForecastPath[v] : v \in ConfigVendors})
    /\ started = <<>>
    /\ returncodes = <<>>
    /\ accepted = [script \in VendorScripts |-> NoEntries]
    /\ faults = {}
    /\ forecast_runs = <<>>
    /\ calls = <<>>

\* if not os.path.exists('vendor_config.json'): write the default one
CreateDefaultConfig ==
    /\ pc = "config"
    /\ config_file' = IF config_file = "absent" THEN "default" ELSE config_file
    /\ pc' = "scripts"
    /\ UNCHANGED <<vi, vendor_names, log, started, returncodes, fs, accepted,
                   faults, forecast_runs, calls>>
    /\ UNCHANGED <<metric_vars, engine_vars, calculator_vars>>

\* for script in scripts: print("Running ..."); subprocess.run starts it
StartScript ==
    /\ pc = "scripts"
    /\ Len(started) < Len(Scripts)
    /\ started' = Append(started, Scripts[Len(started) + 1])
    /\ pc' = "running"
    /\ UNCHANGED <<vi, vendor_names, log, config_file, returncodes, fs,
                   accepted, faults, forecast_runs, calls>>
    /\ UNCHANGED <<metric_vars, engine_vars, calculator_vars>>

\* the script that is running
Running(script) == pc = "running" /\ started[Len(started)] = script

\* the subprocess returns; "if not run(script): print Failed at; break"
Returns(script, returncode) ==
    /\ returncodes' = Append(returncodes, returncode)
    /\ pc' = IF run(returncode) THEN "scripts" ELSE "failed"
    /\ log' = IF run(returncode) THEN log
              ELSE Append(log, Msg("", script, "failed_at"))

\* a file or network operation of the running script fails and the script
\* ends by the exception
ScriptFails ==
    /\ pc = "running"
    /\ Returns(started[Len(started)], 1)
    /\ faults' = faults \cup {started[Len(started)]}
    /\ UNCHANGED <<vi, vendor_names, config_file, started, fs, accepted,
                   forecast_runs, calls>>
    /\ UNCHANGED <<metric_vars, engine_vars, calculator_vars>>

\* data_generator.main: every exception is handled, datasets are written
DataGeneratorScript ==
    /\ Running("data_generator.py")
    /\ fs' = fs \cup {InputData}
    /\ Returns("data_generator.py", 0)
    /\ UNCHANGED <<vi, vendor_names, config_file, started, accepted, faults,
                   forecast_runs, calls>>
    /\ UNCHANGED <<metric_vars, engine_vars, calculator_vars>>

\* forecast_generator.main: for each vendor, the files of
\* vendor.get('forecast_files', {}) are written; a dataset that fails is
\* reported and left out (a failed operation that the script handles)
ForecastGeneratorScript ==
    /\ Running("forecast_generator.py")
    /\ \E generated \in SUBSET ConfigVendors :
          /\ (SchemaOf(config_file) # "forecast_files" \/ InputData \notin fs)
                => generated = {}
          /\ fs' = fs \cup {ForecastPath[v] : v \in generated}
          /\ faults' = IF /\ SchemaOf(config_file) = "forecast_files"
                          /\ generated # ConfigVendors
                       THEN faults \cup {"forecast_generator.py"}
                       ELSE faults
    /\ Returns("forecast_generator.py", 0)
    /\ UNCHANGED <<vi, vendor_names, config_file, started, accepted,
                   forecast_runs, calls>>
    /\ UNCHANGED <<metric_vars, engine_vars, calculator_vars>>

\* metrics_calculator.main: entries without name or 'forecast_file' are
\* skipped, the others are loaded; the metrics file is written if any vendor
\* has metrics.  With a vendor list that is not empty it returns normally.
MetricsCalculatorScript ==
    /\ Running("metrics_calculator.py")
    /\ LET e == EntriesOf(config_file, fs)
       IN  /\ accepted' = [accepted EXCEPT !["metrics_calculator.py"] = e]
           /\ fs' = IF e.processed # {} THEN fs \cup {MetricsResults} ELSE fs
    /\ Returns("metrics_calculator.py", 0)
    /\ UNCHANGED <<vi, vendor_names, config_file, started, faults,
                   forecast_runs, calls>>
    /\ UNCHANGED <<metric_vars, engine_vars, calculator_vars>>

\* visualization_generator.main: sys.exit(1) without the metrics file (one
\* that exists holds metrics) and when load_all_forecasts loaded no table
VisualizationGeneratorScript ==
    /\ Running("visualization_generator.py")
    /\ LET e == EntriesOf(config_file, fs)
       IN  IF MetricsResults \notin fs
           THEN /\ Returns("visualization_generator.py", 1)
                /\ UNCHANGED accepted
           ELSE /\ accepted' = [accepted EXCEPT !["visualization_generator.py"] = e]
                /\ Returns("visualization_generator.py",
                           IF e.processed = {} THEN 1 ELSE 0)
    /\ UNCHANGED <<vi, vendor_names, config_file, started, fs, faults,
                   forecast_runs, calls>>
    /\ UNCHANGED <<metric_vars, engine_vars, calculator_vars>>

\* dashboard_creator.main: sys.exit(1) without the metrics file, else the
\* dashboard is written
DashboardCreatorScript ==
    /\ Running("dashboard_creator.py")
    /\ IF MetricsResults \notin fs
       THEN /\ Returns("dashboard_creator.py", 1)
            /\ UNCHANGED fs
       ELSE /\ fs' = fs \cup {Dashboard}
            /\ Returns("dashboard_creator.py", 0)
    /\ UNCHANGED <<vi, vendor_names, config_file, started, accepted, faults,
                   forecast_runs, calls>>
    /\ UNCHANGED <<metric_vars, engine_vars, calculator_vars>>

\* the else branch of the for loop: no script failed
Done ==
    /\ pc = "scripts"
    /\ Len(started) = Len(Scripts)
    /\ log' = Append(log, Msg("", "", "done"))
    /\ pc' = "finished"
    /\ UNCHANGED <<vi, vendor_names, config_file, started, returncodes, fs,
                   accepted, faults, forecast_runs, calls>>
    /\ UNCHANGED <<metric_vars, engine_vars, calculator_vars>>

NextRunAll ==
    \/ CreateDefaultConfig
    \/ StartScript
    \/ ScriptFails
    \/ DataGeneratorScript
    \/ ForecastGeneratorScript
    \/ MetricsCalculatorScript
    \/ VisualizationGeneratorScript
    \/ DashboardCreatorScript
    \/ Done

(***************************************************************************)
(* run_benchmarking.py: main runs up to four steps with run_step.          *)
(***************************************************************************)
Steps == <<"generate_sample_data.py", "benchmark_engine.py",
           "create_visualizations.py", "create_dashboard.py">>

InputFolder == "input"

\* no process could be started (subprocess.run raises FileNotFoundError)
NoProcess == -1

\* how a step can end: exit code 0, 1 (the script failed), 2 (the
\* interpreter cannot open the script), or no process at all
StepOutcomes == {0, 1, 2, NoProcess}

\* mutant of run_step: a script that is not found counts as a success
run_step_found_only(returncode) == returncode \in {0, 2}

\* run_step: True unless CalledProcessError (check=True and a non-zero exit
\* code) or FileNotFoundError
run_step(returncode) == returncode = 0

InitRunBenchmarking ==
    /\ MetricIdle
    /\ EngineIdle
    /\ CalculatorIdle
    /\ vi = 0
    /\ vendor_names = <<>>
    /\ log = <<>>
    /\ pc = "rb_main"
    /\ config_file \in {"forecast_files"}
    /\ fs \in SUBSET {InputFolder}
    /\ started = <<>>
    /\ returncodes = <<>>
    /\ accepted = [script \in VendorScripts |-> NoEntries]
    /\ faults = {}
    /\ forecast_runs = <<>>
    /\ calls = <<>>

\* if not os.path.exists('input'): the first step is generate_sample_data
CheckInputFolder ==
    /\ pc = "rb_main"
    /\ vi' = IF InputFolder \in fs THEN 2 ELSE 1
    /\ pc' = "rb_steps"
    /\ UNCHANGED <<vendor_names, log, script_vars>>
    /\ UNCHANGED <<metric_vars, engine_vars, calculator_vars>>

\* run_step(script_name, description): subprocess.run starts the script
StartStep ==
    /\ pc = "rb_steps"
    /\ vi <= Len(Steps)
    /\ started' = Append(started, Steps[vi])
    /\ pc' = "rb_running"
    /\ UNCHANGED <<vi, vendor_names, log, config_file, returncodes, fs,
                   accepted, faults, forecast_runs, calls>>
    /\ UNCHANGED <<metric_vars, engine_vars, calculator_vars>>

\* run_step returns; "if not run_step(...): return"
StepReturns ==
    /\ pc = "rb_running"
    /\ \E returncode \in StepOutcomes :
          /\ returncodes' = Append(returncodes, returncode)
          /\ pc' = IF run_step(returncode) THEN "rb_steps" ELSE "rb_returned"
          /\ vi' = IF run_step(returncode) THEN vi + 1 ELSE vi
          /\ log' = IF returncode = 0 THEN log
                    ELSE Append(log, Msg("", Steps[vi],
                             IF returncode = NoProcess THEN "not_found"
                             ELSE "error_running"))
          /\ fs' = IF returncode = 0 /\ vi = 1 THEN fs \cup {InputFolder} ELSE fs
    /\ UNCHANGED <<vendor_names, config_file, started, accepted, faults,
                   forecast_runs, calls>>
    /\ UNCHANGED <<metric_vars, engine_vars, calculator_vars>>

\* print("BENCHMARKING COMPLETE!")
Complete ==
    /\ pc = "rb_steps"
    /\ vi > Len(Steps)
    /\ log' = Append(log, Msg("", "", "benchmarking_complete"))
    /\ pc' = "rb_complete"
    /\ UNCHANGED <<vi, vendor_names, script_vars>>
    /\ UNCHANGED <<metric_vars, engine_vars, calculator_vars>>

NextRunBenchmarking == CheckInputFolder \/ StartStep \/ StepReturns \/ Complete

\* either pipeline
InitPipelines == InitRunAll \/ InitRunBenchmarking

NextPipelines == NextRunAll \/ NextRunBenchmarking

SpecPipelines == InitPipelines /\ [][NextPipelines]_vars

\* both main functions run to their end, and a subprocess returns (every
\* script terminates; downloads have a timeout)
FairPipelines == SpecPipelines /\ WF_vars(NextPipelines)

(***************************************************************************)
(* data_generator.py: main fetches five datasets one after the other, each *)
(* from one or two sources; a download succeeds or fails.                  *)
(***************************************************************************)
CarSalesFile == "input/monthly_car_sales.csv"

AutoInventoryFile == "input/us_auto_inventory.csv"

SunspotsFile == "input/sunspots.csv"

ShampooFile == "input/shampoo_sales.csv"

AirPassengersFile == "input/air_passengers.csv"

DatasetFiles == {CarSalesFile, AutoInventoryFile, SunspotsFile, ShampooFile,
                 AirPassengersFile}

\* the number of sources tried for the datasets with a list of sources
SourceCount == 2

\* every outcome of the requests to a list of sources, tried in order
DownloadOutcomes == [1..SourceCount -> BOOLEAN]

Downloaded(outcome) == \E i \in DOMAIN outcome : outcome[i]

\* create_sample_data(): the files it writes
create_sample_data(paths) ==
    paths \cup {CarSalesFile, "input/sample_retail_data.csv",
                "input/sample_gdp_data.csv", AirPassengersFile}

InitDataGenerator ==
    /\ MetricIdle
    /\ EngineIdle
    /\ CalculatorIdle
    /\ vi = 0
    /\ vendor_names = <<>>
    /\ log = <<>>
    /\ pc = "car_sales"
    /\ config_file = "absent"
    /\ fs \in SUBSET DatasetFiles
    /\ started = <<>>
    /\ returncodes = <<>>
    /\ accepted = [script \in VendorScripts |-> NoEntries]
    /\ faults = {}
    /\ forecast_runs = <<>>
    /\ calls = <<>>

\* what a step of main leaves alone
DataGeneratorFrame ==
    /\ UNCHANGED <<vi, vendor_names, config_file, started, returncodes,
                   accepted, faults, forecast_runs, calls>>
    /\ UNCHANGED <<metric_vars, engine_vars, calculator_vars>>

\* 1. Monthly Car Sales: the first source that answers, else
\* create_sample_data()
CarSales ==
    /\ pc = "car_sales"
    /\ \E outcome \in DownloadOutcomes :
          /\ fs' = IF Downloaded(outcome) THEN fs \cup {CarSalesFile}
                   ELSE create_sample_data(fs)
          /\ log' = Append(log, Msg("", CarSalesFile,
                        IF Downloaded(outcome) THEN "loaded" ELSE "sample_created"))
    /\ pc' = "auto_inventory"
    /\ DataGeneratorFrame

\* 2. US Auto Inventory: the FRED table, else a sample table
AutoInventory ==
    /\ pc = "auto_inventory"
    /\ \E ok \in BOOLEAN :
          log' = Append(log, Msg("", AutoInventoryFile,
                     IF ok THEN "loaded" ELSE "sample_created"))
    /\ fs' = fs \cup {AutoInventoryFile}
    /\ pc' = "sunspots"
    /\ DataGeneratorFrame

\* 3. Sunspots: the first source that answers, else a generated table
Sunspots ==
    /\ pc = "sunspots"
    /\ \E outcome \in DownloadOutcomes :
          log' = Append(log, Msg("", SunspotsFile,
                     IF Downloaded(outcome) THEN "loaded" ELSE "sample_created"))
    /\ fs' = fs \cup {SunspotsFile}
    /\ pc' = "shampoo_sales"
    /\ DataGeneratorFrame

\* 4. Shampoo Sales: the download, else a sample table
ShampooSales ==
    /\ pc = "shampoo_sales"
    /\ \E ok \in BOOLEAN :
          log' = Append(log, Msg("", ShampooFile,
                     IF ok THEN "loaded" ELSE "sample_created"))
    /\ fs' = fs \cup {ShampooFile}
    /\ pc' = "air_passengers"
    /\ DataGeneratorFrame

\* 5. AirPassengers: the first source that answers, else only the message
\* "already created as part of sample data"; then main returns
AirPassengers ==
    /\ pc = "air_passengers"
    /\ \E outcome \in DownloadOutcomes :
          /\ fs' = IF Downloaded(outcome) THEN fs \cup {AirPassengersFile} ELSE fs
          /\ log' = Append(log, Msg("", AirPassengersFile,
                        IF Downloaded(outcome) THEN "loaded" ELSE "already_created"))
    /\ pc' = "generated"
    /\ DataGeneratorFrame

NextDataGenerator ==
    CarSales \/ AutoInventory \/ Sunspots \/ ShampooSales \/ AirPassengers

SpecDataGenerator == InitDataGenerator /\ [][NextDataGenerator]_vars

(***************************************************************************)
(* forecast_generator.py: forecast(train_data, vendor_name, n), called in  *)
(* separate runs of the program.  hash() of a str is salted with the hash  *)
(* seed of the process, which the interpreter draws at start-up.  The      *)
(* forecast of a fitted model is a function of the training data alone,    *)
(* taken here to be the last training value.  Values are in 1/200 of the   *)
(* series unit.                                                            *)
(***************************************************************************)
ForecastVendors == {"AWS", "Azure", "Databricks", "Other"}

StrCode == [s \in ForecastVendors |->
               IF s = "AWS" THEN 0 ELSE IF s = "Azure" THEN 1
               ELSE IF s = "Databricks" THEN 2 ELSE 3]

\* the hash seeds a process can start with
HashSeeds == 0..MaxHashSeed

\* hash(vendor_name) in a process with the given hash seed; the values are
\* in 0 .. 2**32 - 1, where "% 2**32" changes nothing
hash(s, hashseed) == StrCode[s] * (MaxHashSeed + 1) + hashseed

\* the i-th variate of np.random.normal(0, 0.02, n) after
\* np.random.seed(seed), in percent
Noise(seed, i) == (((seed + i) % 3) - 1) * 2

TrainData == {<<10, 12>>, <<12, 9>>}

\* the number of steps forecast
ForecastSteps == 2

\* forecast(train_data, vendor_name, n) in a process with the given hash
\* seed; fitted tells whether the vendor's model could be fitted
forecast_values(train_data, vendor_name, n, hashseed, fitted) ==
    LET seed == hash(vendor_name, hashseed)
        last == train_data[Len(train_data)]
        first == train_data[1]
    IN  IF vendor_name = "AWS"
        THEN IF fitted
             THEN [i \in 1..n |-> last * (100 + Noise(seed, i)) * 2]
             ELSE [i \in 1..n |-> last * 200]
        ELSE IF vendor_name = "Azure"
        THEN IF fitted
             THEN [i \in 1..n |-> last * 99 * 2]
             ELSE [i \in 1..n |-> (first + last) * 100]
        ELSE IF vendor_name = "Databricks"
        THEN IF fitted
             THEN [i \in 1..n |-> last * (100 + 2 * (i - 1)) * 2]
             ELSE [i \in 1..n |-> (last + i * (last - first)) * 200]
        ELSE [i \in 1..n |-> last * 200]

InitForecast ==
    /\ MetricIdle
    /\ EngineIdle
    /\ CalculatorIdle
    /\ vi = 0
    /\ vendor_names = <<>>
    /\ log = <<>>
    /\ pc = "forecast"
    /\ config_file = "absent"
    /\ fs = {}
    /\ started = <<>>
    /\ returncodes = <<>>
    /\ accepted = [script \in VendorScripts |-> NoEntries]
    /\ faults = {}
    /\ forecast_runs = <<>>
    /\ calls = <<>>

\* one run of the program: the interpreter starts with a hash seed and
\* forecast is called
ForecastRun ==
    /\ pc = "forecast"
    /\ Len(forecast_runs) < MaxRuns
    /\ \E vendor_name \in ForecastVendors, train_data \in TrainData,
          hashseed \in HashSeeds, fitted \in BOOLEAN :
          forecast_runs' = Append(forecast_runs,
              [vendor |-> vendor_name,
               train |-> train_data,
               fitted |-> fitted,
               seed |-> hash(vendor_name, hashseed),
               values |-> forecast_values(train_data, vendor_name,
                                          ForecastSteps, hashseed, fitted)])
    /\ UNCHANGED <<pc, vi, vendor_names, log, config_file, started,
                   returncodes, fs, accepted, faults, calls>>
    /\ UNCHANGED <<metric_vars, engine_vars, calculator_vars>>

NextForecast == ForecastRun

SpecForecast == InitForecast /\ [][NextForecast]_vars

(***************************************************************************)
(* Reference quantities for the properties, computed from the input series *)
(* by index sets and integer sums (not by the Series reductions above).    *)
(***************************************************************************)
RECURSIVE SumFn(_, _)
SumFn(fn, S) ==
    IF S = {} THEN Zero
    ELSE LET i == CHOOSE j \in S : TRUE
         IN  FAdd(fn[i], SumFn(fn, S \ {i}))

\* the mean of fn over the index set S (NaN for the empty set)
MeanOver(fn, S) == FDiv(SumFn(fn, S), Fin(Cardinality(S), 1))

RECURSIVE SumInt(_, _)
SumInt(fn, S) ==
    IF S = {} THEN 0
    ELSE LET i == CHOOSE j \in S : TRUE
         IN  fn[i] + SumInt(fn, S \ {i})

Indices == 1..Len(actual)

\* sum(|actual_i - forecast_i|) and sum(forecast_i - actual_i), in hundredths
SumAbsError == SumInt([i \in Indices |-> Abs(actual[i] - forecast[i])], Indices)

SumError == SumInt([i \in Indices |-> forecast[i] - actual[i]], Indices)

\* a returned metric as an integer count of hundredths
Hundredths(x) == x.n * (100 \div x.d)

IsRounded2(x) == IsFin(x) /\ 100 % x.d = 0

Calculated(m) == m \in called

NonZeroActual == {i \in Indices : actual[i] # 0}

NotBothZero == {i \in Indices : ~(actual[i] = 0 /\ forecast[i] = 0)}

\* mean(|actual_i - forecast_i| / actual_i) * 100 over the non-zero actuals
ReferenceMAPE ==
    Round2(FMul(MeanOver([i \in NonZeroActual |->
                    FDiv(Fin(Abs(actual[i] - forecast[i]), 100), Val(actual[i]))],
                NonZeroActual), Hundred))

\* mean(2|f_i - a_i| / (|a_i| + |f_i|)) * 100 over the points not both zero
ReferenceSMAPE ==
    Round2(FMul(MeanOver([i \in NotBothZero |->
                    Fin(2 * Abs(forecast[i] - actual[i]),
                        Abs(actual[i]) + Abs(forecast[i]))],
                NotBothZero), Hundred))

(***************************************************************************)
(* C1.  MAPE is the mean of |a_i - f_i| / a_i * 100 over exactly the       *)
(* indices with a_i # 0, and no Inf/NaN reaches the output, in both        *)
(* calculate_metrics variants.                                             *)
(***************************************************************************)
C1_MapeExcludesZeroActuals ==
    /\ Calculated("mc") =>
          /\ IsFin(mc_metrics.MAPE)
          /\ NonZeroActual # {} => mc_metrics.MAPE = ReferenceMAPE
    /\ Calculated("be") =>
          /\ IsFin(be_metrics.MAPE)
          /\ NonZeroActual # {} => be_metrics.MAPE = ReferenceMAPE

(***************************************************************************)
(* C2.  Every value of a returned metric set is a finite number.           *)
(***************************************************************************)
C2_AllMetricsFinite ==
    /\ Calculated("mc") =>
          \A m \in DOMAIN mc_metrics : IsFin(mc_metrics[m])
    /\ Calculated("be") =>
          \A m \in DOMAIN be_metrics : IsFin(be_metrics[m])

(***************************************************************************)
(* C3.  Identity: with forecast equal to actual element-wise, every metric *)
(* is 0.                                                                   *)
(***************************************************************************)
C3_IdentityAllZero ==
    actual = forecast =>
        /\ Calculated("mc") => \A m \in DOMAIN mc_metrics : mc_metrics[m] = Zero
        /\ Calculated("be") => \A m \in DOMAIN be_metrics : be_metrics[m] = Zero

(***************************************************************************)
(* C4.  On actual=[10,20,30,40], forecast=[12,18,33,38] calculate_metrics  *)
(* returns MAE=2.25, MAPE=11.25, WAPE=9.00, RMSE=2.29, Bias=0.25,          *)
(* SMAPE=10.84, Tracking_Signal=0.44.                                      *)
(***************************************************************************)
OnScenario == actual = Scenario.actual /\ forecast = Scenario.forecast

C4_ConcreteScenario ==
    (OnScenario /\ Calculated("mc")) =>
        mc_metrics = [MAE |-> Fin(225, 100),
                      MAPE |-> Fin(1125, 100),
                      WAPE |-> Fin(900, 100),
                      RMSE |-> Fin(229, 100),
                      Bias |-> Fin(25, 100),
                      SMAPE |-> Fin(1084, 100),
                      Tracking_Signal |-> Fin(44, 100)]

C4_Witness == OnScenario /\ Calculated("mc")

(***************************************************************************)
(* C5.  Tracking_Signal is sum(f_i - a_i) / MAE (to 2 decimals) when the   *)
(* mean absolute error is not 0, and exactly 0 when it is 0; it is never   *)
(* the result of a division by zero.                                       *)
(***************************************************************************)
C5_TrackingSignal ==
    Calculated("mc") =>
        LET t == mc_metrics.Tracking_Signal
            n == Len(actual)
        IN  /\ IsRounded2(t)
            /\ SumAbsError = 0 => t = Zero
            \* |t/100 - n*SumError/SumAbsError| <= 1/200
            /\ SumAbsError # 0 =>
                  2 * Abs(Hundredths(t) * SumAbsError - 100 * n * SumError)
                      <= SumAbsError

C5_Witness ==
    /\ Calculated("mc")
    /\ SumAbsError # 0
    /\ SumError < 0
    /\ Hundredths(mc_metrics.Tracking_Signal) < 0

(***************************************************************************)
(* C6.  SMAPE is the mean of 2|f_i - a_i| / (|a_i| + |f_i|) * 100 over     *)
(* exactly the indices where a_i and f_i are not both 0 (the mean of no    *)
(* index at all being NaN).                                                *)
(***************************************************************************)
C6_SmapeExcludesBothZero ==
    Calculated("mc") =>
        /\ NotBothZero # {} => mc_metrics.SMAPE = ReferenceSMAPE
        /\ NotBothZero = {} => IsNaN(mc_metrics.SMAPE)

C6_Witness ==
    /\ Calculated("mc")
    /\ NotBothZero # {}
    /\ NotBothZero # Indices
    /\ IsFin(mc_metrics.SMAPE)
    /\ mc_metrics.SMAPE # Zero

(***************************************************************************)
(* C7.  As claimed: Bias is negative exactly when the forecasts sum to     *)
(* less than the actuals, positive exactly when they sum to more, and 0    *)
(* when the sums are equal.                                                *)
(***************************************************************************)
BiasSignExact(b) ==
    /\ IsFin(b)
    /\ (b.n < 0) <=> (SumError < 0)
    /\ (b.n > 0) <=> (SumError > 0)
    /\ (SumError = 0) => b = Zero

C7_BiasSignExact ==
    /\ Calculated("mc") => BiasSignExact(mc_metrics.Bias)
    /\ Calculated("be") => BiasSignExact(be_metrics.Bias)

(***************************************************************************)
(* C7 amended.  Bias is the signed mean of (f_i - a_i) rounded to 2        *)
(* decimals: it is negative only when the forecasts sum to less than the   *)
(* actuals, positive only when they sum to more, 0 when the sums are       *)
(* equal, and within 0.005 of the exact mean (so a mean of magnitude       *)
(* below 0.005 is returned as 0).                                          *)
(***************************************************************************)
BiasRounded(b) ==
    /\ IsRounded2(b)
    /\ 2 * Abs(Hundredths(b) * Len(actual) - SumError) <= Len(actual)
    /\ (b.n < 0) => (SumError < 0)
    /\ (b.n > 0) => (SumError > 0)
    /\ (SumError = 0) => b = Zero

C7_BiasRoundedSign ==
    /\ Calculated("mc") => BiasRounded(mc_metrics.Bias)
    /\ Calculated("be") => BiasRounded(be_metrics.Bias)

C7_Witness ==
    /\ Calculated("mc")
    /\ Calculated("be")
    /\ SumError < 0
    /\ 2 * Abs(SumError) < Len(actual)
    /\ mc_metrics.Bias = Zero
    /\ be_metrics.Bias = Zero

(***************************************************************************)
(* Reference quantities for the aggregation properties, read from the      *)
(* configuration and the files.                                            *)
(***************************************************************************)
Names == {vendor_names[i] : i \in 1..Len(vendor_names)}

EntriesNamed(v) == {i \in 1..Len(vendor_names) : vendor_names[i] = v}

\* the entry whose results the vendor map holds for v
LastEntry(v) == CHOOSE i \in EntriesNamed(v) : \A j \in EntriesNamed(v) : j <= i

\* the datasets of entry i whose file holds a table
Evaluated(i) == {d \in DatasetKeys : files[i][d].st = "valid"}

ReferenceAverage(v, metric) ==
    MeanOver([d \in Evaluated(LastEntry(v)) |->
                 EngineMetrics[files[LastEntry(v)][d].frame][metric]],
             Evaluated(LastEntry(v)))

HasEvaluated(v) == Evaluated(LastEntry(v)) # {}

Summarised == pc \in {"save", "saved"}

\* no dataset of any entry named v was evaluated successfully
EngineNoSuccess(v) == \A i \in EntriesNamed(v) : Evaluated(i) = {}

CalculatorNoSuccess(v) == \A i \in EntriesNamed(v) : mc_files[i].st # "valid"

(***************************************************************************)
(* C8.  A provider's average of a metric is the unweighted arithmetic mean *)
(* of that metric over exactly the datasets for which the provider has a   *)
(* computed metric set (a skipped dataset counts neither as a value nor in *)
(* the denominator): in _calculate_summary (vendor_avg_mape, overall_best),*)
(* in create_summary_chart and in generate_dashboard.                      *)
(***************************************************************************)
C8_AverageOverEvaluated ==
    /\ Summarised =>
          /\ DOMAIN vendor_avg_mape.map = {v \in Names : HasEvaluated(v)}
          /\ \A v \in DOMAIN vendor_avg_mape.map :
                vendor_avg_mape.map[v] = ReferenceAverage(v, "MAPE")
          /\ \A k \in 1..Len(results.overall_best) :
                results.overall_best[k].avg_mape =
                    Round2(ReferenceAverage(results.overall_best[k].vendor, "MAPE"))
    /\ \A v \in DOMAIN vendor_summary.map : HasEvaluated(v) =>
          \A metric \in {"MAE", "MAPE", "WAPE", "RMSE"} :
              vendor_summary.map[v][metric] = ReferenceAverage(v, metric)
    /\ \A k \in 1..Len(vendor_cards) : HasEvaluated(vendor_cards[k].vendor) =>
          vendor_cards[k].avg_mape = ReferenceAverage(vendor_cards[k].vendor, "MAPE")

\* a provider with MAPE 10.0 and 20.0 averages 15.0, and a provider with one
\* dataset skipped averages the MAPE of the other
C8_Witness ==
    /\ pc = "saved"
    /\ Len(vendor_summary.keys) > 0
    /\ \E v \in Names :
          /\ {results.vendors.map[v].map[d].metrics.MAPE :
                 d \in DOMAIN results.vendors.map[v].map} = {Fin(10, 1), Fin(20, 1)}
          /\ vendor_avg_mape.map[v] = Fin(15, 1)
    /\ \E w \in Names :
          /\ \E d \in DatasetKeys : files[LastEntry(w)][d].st = "missing"
          /\ Has(vendor_avg_mape, w)
          /\ vendor_avg_mape.map[w] = Fin(20, 1)
          /\ \E k \in 1..Len(vendor_cards) :
                vendor_cards[k].vendor = w /\ vendor_cards[k].avg_mape = Fin(20, 1)

(***************************************************************************)
(* C9.  A provider with zero successfully evaluated datasets has no entry  *)
(* in the result's provider map and no average is reported for it.         *)
(***************************************************************************)
C9_NoEntryWithoutDatasets ==
    \A v \in Names : EngineNoSuccess(v) =>
        /\ \A k \in 1..Len(results_file) : ~Has(results_file[k].vendors, v)
        /\ ~Has(vendor_summary, v)
        /\ \A k \in 1..Len(vendor_cards) : vendor_cards[k].vendor # v

(***************************************************************************)
(* C10.  A provider with zero successfully evaluated datasets is never     *)
(* selected as best: it is no dataset's best_vendor, not the overall_best  *)
(* vendor, and not metrics_calculator's best_performer_mape.               *)
(***************************************************************************)
NotBestIn(r, v) ==
    /\ \A d \in DOMAIN r.summary.map : r.summary.map[d].best_vendor # v
    /\ \A k \in 1..Len(r.overall_best) : r.overall_best[k].vendor # v

C10_NeverBestWithoutDatasets ==
    /\ \A v \in Names : (Len(files) > 0 /\ EngineNoSuccess(v)) =>
          /\ NotBestIn(results, v)
          /\ \A k \in 1..Len(results_file) : NotBestIn(results_file[k], v)
          /\ \A k \in 1..Len(vendor_cards) :
                vendor_cards[k].vendor = v => ~vendor_cards[k].is_best
    /\ \A v \in Names : (Len(mc_files) > 0 /\ CalculatorNoSuccess(v)) =>
          \A k \in 1..Len(metrics_file) : metrics_file[k].best_performer_mape # v

\* the first vendor has no evaluated dataset, the run has ranked, and another
\* vendor is the overall best
C10_Witness ==
    /\ pc = "saved"
    /\ Len(vendor_cards) > 1
    /\ Len(vendor_names) > 1
    /\ EngineNoSuccess(vendor_names[1])
    /\ Len(results.overall_best) = 1
    /\ \E d \in DatasetKeys : results.summary.map[d].best_vendor \in Names

(***************************************************************************)
(* Reference quantities for the ranking properties.                        *)
(***************************************************************************)
\* x <= y as numbers; a NaN y is no value and does not count against x
LessEq(x, y) == IsNaN(y) \/ (~IsNaN(x) /\ ~FLt(y, x))

\* the providers with a metric set for dataset d in the result r
RankedFor(r, d) == {v \in DOMAIN r.vendors.map : Has(r.vendors.map[v], d)}

MapeOf(r, v, d) == r.vendors.map[v].map[d].metrics.MAPE

\* v is one of the providers S and keyOf[v] <= keyOf[w] for every other w
IsMinimum(v, keyOf, S) ==
    v \in S /\ \A w \in S \ {v} : LessEq(keyOf[v], keyOf[w])

(***************************************************************************)
(* C11.  The provider reported as best for a minimised metric has a value  *)
(* <= that of every ranked provider: a dataset's best_vendor over the      *)
(* providers with metrics for the dataset (MAPE), overall_best over the    *)
(* average MAPEs, and metrics_calculator's best MAPE, WAPE and RMSE        *)
(* providers over the providers with metrics.                              *)
(***************************************************************************)
C11_BestHasMinimum ==
    /\ Summarised =>
          /\ \A d \in DOMAIN results.summary.map :
                results.summary.map[d].best_vendor # NoneVendor =>
                    IsMinimum(results.summary.map[d].best_vendor,
                              [v \in RankedFor(results, d) |-> MapeOf(results, v, d)],
                              RankedFor(results, d))
          /\ \A k \in 1..Len(results.overall_best) :
                IsMinimum(results.overall_best[k].vendor, vendor_avg_mape.map,
                          DOMAIN vendor_avg_mape.map)
    /\ \A k \in 1..Len(metrics_file) :
          IsMinimum(metrics_file[k].best_performer_mape,
                    [v \in DOMAIN vendor_metrics.map |-> vendor_metrics.map[v].MAPE],
                    DOMAIN vendor_metrics.map)
    /\ \A k \in 1..Len(best_performers) :
          \A metric \in {"MAPE", "WAPE", "RMSE"} :
              IsMinimum(best_performers[k][metric],
                        [v \in DOMAIN vendor_metrics.map |->
                            vendor_metrics.map[v][metric]],
                        DOMAIN vendor_metrics.map)

(***************************************************************************)
(* C12.  Ties are broken by registration order: when two or more providers *)
(* share the minimum MAPE of a ranking, the one that appears first in the  *)
(* configuration's vendor list is selected (so the selection is a function *)
(* of the configuration and the files, the same in every run): for a       *)
(* dataset's best_vendor, for overall_best and for best_performer_mape.    *)
(***************************************************************************)
\* the providers of S that hold the minimum of keyOf over S
Minimal(keyOf, S) ==
    {v \in S : \A w \in S :
        ~IsNaN(keyOf[v]) /\ ~IsNaN(keyOf[w]) /\ ~FLt(keyOf[w], keyOf[v])}

\* the position of v's first entry in the vendor list
FirstEntry(v) == CHOOSE i \in EntriesNamed(v) : \A j \in EntriesNamed(v) : i <= j

\* on a tie for the minimum, b is the tied provider registered first
FirstOfTied(b, keyOf, S) ==
    Cardinality(Minimal(keyOf, S)) >= 2 =>
        /\ b \in Minimal(keyOf, S)
        /\ \A w \in Minimal(keyOf, S) : FirstEntry(b) <= FirstEntry(w)

C12_TiesByRegistrationOrder ==
    /\ Summarised =>
          /\ \A d \in DOMAIN results.summary.map :
                FirstOfTied(results.summary.map[d].best_vendor,
                            [v \in RankedFor(results, d) |-> MapeOf(results, v, d)],
                            RankedFor(results, d))
          /\ \A k \in 1..Len(results.overall_best) :
                FirstOfTied(results.overall_best[k].vendor, vendor_avg_mape.map,
                            DOMAIN vendor_avg_mape.map)
    /\ \A k \in 1..Len(metrics_file) :
          FirstOfTied(metrics_file[k].best_performer_mape,
                      [v \in DOMAIN vendor_metrics.map |-> vendor_metrics.map[v].MAPE],
                      DOMAIN vendor_metrics.map)

(***************************************************************************)
(* C13.  The ranking covers Bias with its own rule: the best performers    *)
(* reported for a run include a best provider for Bias, and it is the      *)
(* provider whose |Bias| is minimal (closest to zero).                     *)
(***************************************************************************)
C13_BiasRankedByMagnitude ==
    \A k \in 1..Len(best_performers) :
        /\ "Bias" \in DOMAIN best_performers[k]
        /\ IsMinimum(best_performers[k].Bias,
                     [v \in DOMAIN vendor_metrics.map |->
                         FAbs(vendor_metrics.map[v].Bias)],
                     DOMAIN vendor_metrics.map)

(***************************************************************************)
(* Reference quantities for the error handling properties.                 *)
(***************************************************************************)
\* the run has gone past entry i of the vendor list
Processed(i) == vi > i \/ (vi = i /\ pc = "raised")

\* the metric sets the files of the entries named v hold for dataset d
EngineMetricsOfFiles(v, d) ==
    {EngineMetrics[files[i][d].frame] :
        i \in {j \in EntriesNamed(v) : files[j][d].st = "valid"}}

CalculatorMetricsOfFiles(v) ==
    {CalculatorMetrics[mc_files[i].frame] :
        i \in {j \in EntriesNamed(v) : mc_files[j].st = "valid"}}

\* a line of the log tells that the pair (entry i, dataset d) was skipped
LoggedSkip(i, d) ==
    \E k \in 1..Len(log) :
        /\ log[k].vendor = vendor_names[i]
        /\ log[k].dataset = d
        /\ log[k].msg \in {"file_not_found", "missing_columns", "error_loading"}

(***************************************************************************)
(* C14.  The batch always completes with partial results: whatever the     *)
(* state of each forecast file, no run ends by an exception, and a         *)
(* finished run has written a results file that holds, for every pair      *)
(* whose file is valid, the metrics of that file.                          *)
(***************************************************************************)
C14_BatchCompletes ==
    /\ pc # "raised"
    /\ pc = "saved" =>
          /\ Len(results_file) = 1
          /\ \A i \in 1..Len(vendor_names) : \A d \in Evaluated(i) :
                /\ Has(results_file[1].vendors, vendor_names[i])
                /\ Has(results_file[1].vendors.map[vendor_names[i]], d)
                /\ MapeOf(results_file[1], vendor_names[i], d) \in
                       {m.MAPE : m \in EngineMetricsOfFiles(vendor_names[i], d)}
    /\ pc = "mc_done" =>
          \A i \in 1..Len(vendor_names) : mc_files[i].st = "valid" =>
              /\ Len(metrics_file) = 1
              /\ Has(metrics_file[1].metrics, vendor_names[i])
              /\ metrics_file[1].metrics.map[vendor_names[i]] \in
                     CalculatorMetricsOfFiles(vendor_names[i])

(***************************************************************************)
(* C15.  A table that lacks a required field (Date, Actual or Forecast)    *)
(* makes its pair be skipped with a logged message: once the run has gone  *)
(* past the entry, a line of the log tells of the skip, no metrics of the  *)
(* pair are recorded, and the run has not ended by an exception.           *)
(***************************************************************************)
C15_MissingFieldSkipped ==
    /\ \A i \in 1..Len(files) : \A d \in DatasetKeys :
          (Processed(i) /\ files[i][d] = NoColumn) =>
              /\ pc # "raised"
              /\ LoggedSkip(i, d)
              /\ EngineMetricsOfFiles(vendor_names[i], d) = {} =>
                     ~(/\ Has(results.vendors, vendor_names[i])
                       /\ Has(results.vendors.map[vendor_names[i]], d))
    /\ \A i \in 1..Len(mc_files) :
          (Processed(i) /\ mc_files[i] \in {NoColumn, NoDate}) =>
              /\ LoggedSkip(i, "")
              /\ CalculatorMetricsOfFiles(vendor_names[i]) = {} =>
                     /\ ~Has(vendor_metrics, vendor_names[i])
                     /\ \A k \in 1..Len(metrics_file) :
                           /\ ~Has(metrics_file[k].metrics, vendor_names[i])
                           /\ metrics_file[k].best_performer_mape # vendor_names[i]

(***************************************************************************)
(* C16.  Results are merged write-once per key: no step of a run changes   *)
(* or removes a result recorded earlier in the run, be it the result of a  *)
(* (provider, dataset) pair in results['vendors'] or the metrics of a      *)
(* provider in vendor_metrics.                                             *)
(***************************************************************************)
KeepsRecorded ==
    /\ \A v \in DOMAIN results.vendors.map :
          \A d \in DOMAIN results.vendors.map[v].map :
              /\ Has(results'.vendors, v)
              /\ Has(results'.vendors.map[v], d)
              /\ results'.vendors.map[v].map[d] = results.vendors.map[v].map[d]
    /\ \A v \in DOMAIN vendor_metrics.map :
          /\ Has(vendor_metrics', v)
          /\ vendor_metrics'.map[v] = vendor_metrics.map[v]

C16_WriteOncePerKey == [][KeepsRecorded]_vars

(***************************************************************************)
(* C17.  Evaluation of a pair is stateless and independent: the metric set *)
(* recorded for a pair is the one its own table yields, whatever other     *)
(* pairs are configured and whatever was evaluated before it; a metric set *)
(* returned by calculate_metrics is that of the series it was given,       *)
(* whichever other call was made before or after; and no step changes an   *)
(* input table.                                                            *)
(***************************************************************************)
OwnTableOnly ==
    /\ \A v \in DOMAIN results.vendors.map :
          \A d \in DOMAIN results.vendors.map[v].map :
              results.vendors.map[v].map[d].metrics \in EngineMetricsOfFiles(v, d)
    /\ \A v \in DOMAIN vendor_metrics.map :
          vendor_metrics.map[v] \in CalculatorMetricsOfFiles(v)
    /\ Calculated("mc") => mc_metrics = calculate_metrics(actual, forecast)
    /\ Calculated("be") => be_metrics = BE_calculate_metrics(actual, forecast)

InputsUnchanged ==
    /\ actual' = actual
    /\ forecast' = forecast
    /\ files' = files
    /\ mc_files' = mc_files

C17_StatelessIndependent == []OwnTableOnly /\ [][InputsUnchanged]_vars

\* two providers hold different tables for the same dataset, a table of the
\* first provider's other dataset differs too, and each pair has the metric
\* set of its own table
C17_Witness ==
    /\ pc = "saved"
    /\ Len(vendor_names) = 2
    /\ vendor_names[1] # vendor_names[2]
    /\ files[1]["dataset1"] = Valid(1)
    /\ files[1]["dataset2"] = Valid(2)
    /\ files[2]["dataset2"] = Valid(3)
    /\ results.vendors.map[vendor_names[1]].map["dataset1"].metrics = EngineMetrics[1]
    /\ results.vendors.map[vendor_names[1]].map["dataset2"].metrics = EngineMetrics[2]
    /\ results.vendors.map[vendor_names[2]].map["dataset2"].metrics = EngineMetrics[3]

(***************************************************************************)
(* C18.  CRPS is non-negative under both strategies: in sampling mode      *)
(* every CRPS_i = mean_j |S_ij - y| - 0.5 mean_jk |S_ij - S_ik| is >= 0,   *)
(* whatever the observation and the ensemble drawn, and so is their mean;  *)
(* in closed_form mode mean(|residual|) + 0.5 std(residual) is >= 0.       *)
(***************************************************************************)
NonNegative(x) == IsFin(x) /\ x.n >= 0

C18_CrpsNonNegative ==
    /\ \A i \in 1..Len(ev_terms) : ev_terms[i] >= 0
    /\ Scored("CRPS_sampling") => NonNegative(scores["CRPS_sampling"])
    /\ Scored("CRPS_closed_form") => NonNegative(scores["CRPS_closed_form"])

\* both strategies have scored a forecast that misses the actuals, from
\* ensembles that are spread out, one of them around its observation
C18_Witness ==
    /\ Scored("CRPS_sampling")
    /\ Scored("CRPS_closed_form")
    /\ scores["CRPS_sampling"].n > 0
    /\ scores["CRPS_closed_form"].n > 0
    /\ MAD4(Residuals(actual, forecast)) # 0
    /\ \E i \in 1..Len(ev_terms) :
          /\ actual[i] = forecast[i]
          /\ ev_terms[i] > 0

(***************************************************************************)
(* C19.  The drift score is in [0, 1]; it is 0 for a series of fewer than  *)
(* 2 points and 0 for a constant series such as [5,5,5,5,5,5].             *)
(***************************************************************************)
InUnitInterval(x) == IsFin(x) /\ 0 <= x.n /\ x.n <= x.d

IsConstant(s) == \A i, j \in 1..Len(s) : s[i] = s[j]

C19_DriftBounds ==
    Scored("Drift_Score") =>
        /\ InUnitInterval(scores["Drift_Score"])
        /\ Len(actual) < 2 => scores["Drift_Score"] = Zero
        /\ IsConstant(actual) => scores["Drift_Score"] = Zero

C19_Witness ==
    /\ Scored("Drift_Score")
    /\ actual = ConstantSeries
    /\ scores["Drift_Score"] = Zero

(***************************************************************************)
(* C20.  Turning_Point_F1 is in [0, 1]; it is 0.0 when the actual or the   *)
(* forecast has no turning point, so 0 for a strictly monotonic actual     *)
(* with a strictly monotonic forecast.                                     *)
(***************************************************************************)
\* the direction of s changes at no interior point
NoTurningPoint(s) ==
    \A i \in 2..(Len(s) - 1) : Sign(s[i] - s[i - 1]) = Sign(s[i + 1] - s[i])

StrictlyMonotonic(s) ==
    \/ \A i \in 2..Len(s) : s[i - 1] < s[i]
    \/ \A i \in 2..Len(s) : s[i - 1] > s[i]

C20_TurningPointF1Bounds ==
    Scored("Turning_Point_F1") =>
        /\ InUnitInterval(scores["Turning_Point_F1"])
        /\ (NoTurningPoint(actual) \/ NoTurningPoint(forecast)) =>
               scores["Turning_Point_F1"] = Zero
        /\ (StrictlyMonotonic(actual) /\ StrictlyMonotonic(forecast)) =>
               scores["Turning_Point_F1"] = Zero

C20_Witness ==
    /\ Scored("Turning_Point_F1")
    /\ Len(actual) >= 4
    /\ StrictlyMonotonic(actual)
    /\ StrictlyMonotonic(forecast)
    /\ scores["Turning_Point_F1"] = Zero

(***************************************************************************)
(* C21.  After run_benchmark, for every dataset of config['datasets'],     *)
(* summary[dataset].best_vendor names a vendor that has metrics for that   *)
(* dataset, and summary[dataset].best_mape is that vendor's MAPE for the   *)
(* dataset and a finite number, in the results and in the results file.    *)
(***************************************************************************)
BestOfRanked(r, d) ==
    /\ Has(r.summary, d)
    /\ r.summary.map[d].best_vendor \in RankedFor(r, d)
    /\ r.summary.map[d].best_mape = MapeOf(r, r.summary.map[d].best_vendor, d)
    /\ IsFin(r.summary.map[d].best_mape)

C21_SummaryNamesRankedVendor ==
    pc = "saved" =>
        \A d \in DatasetKeys :
            /\ BestOfRanked(results, d)
            /\ BestOfRanked(results_file[1], d)

(***************************************************************************)
(* C22.  The run_all pipeline is consistent with the default configuration *)
(* that run_all.main writes: metrics_calculator and                        *)
(* visualization_generator accept every vendor entry and process each      *)
(* vendor whose forecast files exist, and when no file or network          *)
(* operation failed the pipeline does not end by "Failed at".              *)
(***************************************************************************)
\* the script has run through its loop over the vendor entries, without a
\* failed operation (visualization_generator reads the metrics file first)
Returned(script) ==
    /\ script \notin faults
    /\ \E i \in 1..Len(returncodes) : started[i] = script
    /\ script = "visualization_generator.py" => MetricsResults \in fs

Generated == {v \in ConfigVendors : ForecastPath[v] \in fs}

C22_PipelineConsistent ==
    config_file = "default" =>
        /\ \A script \in VendorScripts :
              Returned(script) =>
                  /\ accepted[script].entries = ConfigVendors
                  /\ accepted[script].processed = Generated
        /\ faults = {} => pc # "failed"

(***************************************************************************)
(* C23.  run_benchmarking.main runs generate_sample_data (only when no     *)
(* 'input' folder exists), benchmark_engine, create_visualizations and     *)
(* create_dashboard in that order; a step is started only after every      *)
(* earlier executed step succeeded, the first failing step ends the run    *)
(* with no later step started, and BENCHMARKING COMPLETE is printed if and *)
(* only if every executed step succeeded.                                  *)
(***************************************************************************)
Printed(text) == \E i \in 1..Len(log) : log[i].msg = text

\* list is the part of all that begins at its index first
SegmentFrom(list, all, first) ==
    /\ first + Len(list) - 1 <= Len(all)
    /\ \A i \in 1..Len(list) : list[i] = all[first + i - 1]

OneAtATime == Len(returncodes) <= Len(started) /\ Len(started) <= Len(returncodes) + 1

\* every step before the last started one returned 0
StartedAfterSuccess == \A i \in 1..(Len(started) - 1) : returncodes[i] = 0

RunBenchmarkingRun ==
    pc \in {"rb_main", "rb_steps", "rb_running", "rb_returned", "rb_complete"}

RunBenchmarkingEnded == pc \in {"rb_returned", "rb_complete"}

StepsInOrder ==
    /\ SegmentFrom(started, Steps, 1) \/ SegmentFrom(started, Steps, 2)
    /\ OneAtATime
    /\ StartedAfterSuccess
    /\ \A i \in 1..Len(returncodes) :
          returncodes[i] # 0 => Len(started) = i /\ pc = "rb_returned"
    /\ Printed("benchmarking_complete") <=>
          /\ RunBenchmarkingEnded
          /\ Len(returncodes) = Len(started)
          /\ \A i \in 1..Len(returncodes) : returncodes[i] = 0
    /\ Printed("benchmarking_complete") => started[Len(started)] = Steps[Len(Steps)]

\* generate_sample_data is started only when there is no 'input' folder
SampleDataOnlyWithoutInput ==
    (started' # started /\ started'[Len(started')] = Steps[1])
        => InputFolder \notin fs

\* the first step is benchmark_engine only when there is an 'input' folder
EngineFirstOnlyWithInput ==
    (started = <<>> /\ started' = <<Steps[2]>>) => InputFolder \in fs

C23_StepsInOrder ==
    /\ [](RunBenchmarkingRun => StepsInOrder)
    /\ [][RunBenchmarkingRun => SampleDataOnlyWithoutInput]_vars
    /\ [][RunBenchmarkingRun => EngineFirstOnlyWithInput]_vars
    /\ (RunBenchmarkingRun ~> RunBenchmarkingEnded)

C23_Witness ==
    /\ pc = "rb_complete"
    /\ started = Steps
    /\ Printed("benchmarking_complete")

(***************************************************************************)
(* C24.  run_all.main runs data_generator, forecast_generator,             *)
(* metrics_calculator, visualization_generator and dashboard_creator in    *)
(* that order, one at a time; it stops at the first script that returns a  *)
(* non-zero code, starting no later script, and prints the final Done      *)
(* message if and only if all five scripts returned 0.                     *)
(***************************************************************************)
RunAllRun == pc \in {"config", "scripts", "running", "failed", "finished"}

RunAllEnded == pc \in {"failed", "finished"}

AllReturnedZero ==
    /\ Len(returncodes) = Len(Scripts)
    /\ \A i \in 1..Len(returncodes) : returncodes[i] = 0

ScriptsInOrder ==
    /\ SegmentFrom(started, Scripts, 1)
    /\ OneAtATime
    /\ \A i \in 1..Len(returncodes) :
          returncodes[i] # 0 => Len(started) = i /\ pc = "failed"
    /\ Printed("done") => AllReturnedZero
    /\ (RunAllEnded /\ AllReturnedZero) => Printed("done")

C24_ScriptsInOrder ==
    /\ [](RunAllRun => ScriptsInOrder)
    /\ (RunAllRun ~> RunAllEnded)
    /\ ((RunAllRun /\ AllReturnedZero) ~> Printed("done"))

C24_Witness ==
    /\ pc = "finished"
    /\ started = Scripts
    /\ AllReturnedZero
    /\ Printed("done")

(***************************************************************************)
(* C25.  After data_generator.main returns, each of the five dataset files *)
(* exists under input/, whatever downloads succeeded or failed; when every *)
(* AirPassengers download fails, air_passengers.csv is there already.      *)
(***************************************************************************)
C25_AllDatasetsExist == pc = "generated" => DatasetFiles \subseteq fs

(***************************************************************************)
(* C26.  run_benchmark rebuilds its results from scratch: after any        *)
(* sequence of calls the vendors and summary sections hold only entries    *)
(* derived from the configuration and the files seen by the last call, and *)
(* two consecutive calls with unchanged configuration and files produce    *)
(* identical vendors and summary sections.                                 *)
(***************************************************************************)
\* the vendors section is that of the configuration and the files on disk
VendorsOfFiles(r) ==
    /\ DOMAIN r.vendors.map = Names
    /\ \A v \in Names : \A d \in DatasetKeys :
          IF files[LastEntry(v)][d].st = "valid"
          THEN /\ Has(r.vendors.map[v], d)
               /\ r.vendors.map[v].map[d].metrics =
                      EngineMetrics[files[LastEntry(v)][d].frame]
          ELSE ~Has(r.vendors.map[v], d)

\* the summary section is the one computed from that vendors section alone
SummaryOfVendors(r) ==
    /\ r.summary = SummaryOfDatasets(r.vendors, EmptyDict, 1)
    /\ r.overall_best = OverallBest(VendorAvgMape(r.vendors), <<>>)
    /\ Len(r.overall_best) > 0 => \E v \in Names : HasEvaluated(v)

SameAsLastCall ==
    (Len(calls) > 0 /\ calls[1].files = files) =>
        /\ results.vendors = calls[1].results.vendors
        /\ results.summary = calls[1].results.summary
        /\ results.overall_best = calls[1].results.overall_best

C26_RebuiltFromScratch ==
    pc = "saved" =>
        /\ VendorsOfFiles(results)
        /\ SummaryOfVendors(results)
        /\ SameAsLastCall

\* a second call has returned after the only table of the first call was
\* removed: nothing of the first call is left
C26_Witness ==
    /\ pc = "saved"
    /\ Len(calls) > 0
    /\ Len(calls[1].results.overall_best) > 0
    /\ \A i \in 1..Len(vendor_names) : Evaluated(i) = {}
    /\ results.overall_best = <<>>

(***************************************************************************)
(* C27.  The two calculate_metrics variants agree on the shared metrics:   *)
(* for equal-length series in which every actual value is non-zero and     *)
(* sum(actual) # 0, BenchmarkEngine.calculate_metrics and                  *)
(* metrics_calculator.calculate_metrics return identical MAE, MAPE, WAPE,  *)
(* RMSE and Bias.                                                          *)
(***************************************************************************)
SharedMetrics == {"MAE", "MAPE", "WAPE", "RMSE", "Bias"}

SumActual == SumInt([i \in Indices |-> actual[i]], Indices)

NonZeroActuals ==
    /\ Len(actual) >= 1
    /\ \A i \in Indices : actual[i] # 0
    /\ SumActual # 0

C27_VariantsAgree ==
    (Calculated("mc") /\ Calculated("be") /\ NonZeroActuals) =>
        \A m \in SharedMetrics :
            /\ IsFin(mc_metrics[m])
            /\ mc_metrics[m] = be_metrics[m]

\* both variants were called on series with an over- and an under-forecast
C27_Witness ==
    /\ Calculated("mc")
    /\ Calculated("be")
    /\ NonZeroActuals
    /\ \E i, j \in Indices : forecast[i] > actual[i] /\ forecast[j] < actual[j]
    /\ mc_metrics.MAPE.n > 0

(***************************************************************************)
(* C28.  For equal-length series of length n >= 1 the values returned by   *)
(* metrics_calculator.calculate_metrics satisfy |Bias| <= MAE <= RMSE and  *)
(* |Tracking_Signal| <= n.                                                 *)
(***************************************************************************)
\* x <= y for finite values
FinLessEq(x, y) == IsFin(x) /\ IsFin(y) /\ x.n * y.d <= y.n * x.d

C28_MetricOrder ==
    (Calculated("mc") /\ Len(actual) >= 1) =>
        /\ FinLessEq(FAbs(mc_metrics.Bias), mc_metrics.MAE)
        /\ FinLessEq(mc_metrics.MAE, mc_metrics.RMSE)
        /\ FinLessEq(FAbs(mc_metrics.Tracking_Signal), Fin(Len(actual), 1))

\* errors of both signs and of different sizes: the inequalities are strict
C28_Witness ==
    /\ Calculated("mc")
    /\ Len(actual) >= 2
    /\ \E i, j \in Indices : forecast[i] > actual[i] /\ forecast[j] < actual[j]
    /\ FAbs(mc_metrics.Bias) # mc_metrics.MAE
    /\ mc_metrics.MAE # mc_metrics.RMSE

(***************************************************************************)
(* C29.  forecast is reproducible: the random seed is a function of the    *)
(* vendor name only, so two separate runs of the program with the same     *)
(* vendor name and the same training data produce the same forecast        *)
(* values, while different vendor names are seeded differently.            *)
(***************************************************************************)
C29_ForecastReproducible ==
    \A i, j \in 1..Len(forecast_runs) :
        LET r1 == forecast_runs[i]
            r2 == forecast_runs[j]
        IN  /\ r1.vendor = r2.vendor => r1.seed = r2.seed
            /\ (r1.vendor = r2.vendor /\ r1.train = r2.train
                    /\ r1.fitted = r2.fitted) => r1.values = r2.values
            /\ r1.vendor # r2.vendor => r1.seed # r2.seed

====
